---- MODULE Spec2Model ----
EXTENDS Integers, Sequences, FiniteSets, TLC

(***************************************************************************)
(* Firewall policy analysis engine: the coverage predicate and its three   *)
(* call sites (AnalysisEngine.analyze, ShadowDetectorService,              *)
(* MergerService), the multi-context migration resolver and the traffic    *)
(* replay simulator.                                                       *)
(***************************************************************************)

VARIABLES
    rules,            \* the rule list handed to the analysis services
    stats,            \* AnalysisEngine.analyze: the stats dict
    findings,         \* AnalysisEngine.analyze: the findings list
    shadowed_issues,  \* ShadowDetectorService.detect_shadowed_rules: result
    merge_groups,     \* MergerService.identify_candidates: result
    done,             \* which of the services have returned
    contexts_data,    \* migration: the contexts handed to the resolver
    resolution_strategy,  \* migration: the strategy of the request
    conflict_report,  \* PolicyMigrationService.analyze_conflicts: result
    unified,          \* PolicyMigrationService.generate_unified_policy: result
    migrated,         \* which of the migration services have returned
    traffic_rules,    \* traffic: the rules handed to analyze_logs, in order
    parsed_logs,      \* traffic: the flow records handed to analyze_logs
    processed_rules,  \* analyze_logs: the pre-parsed rules
    rule_stats,       \* analyze_logs: the counters per rule id
    unmatched_count,  \* analyze_logs: allowed flows without a permit rule
    denied_count,     \* analyze_logs: denied flows
    total_logs,       \* analyze_logs: len(parsed_logs)
    log_index,        \* analyze_logs: the flows the loop has processed
    traffic_pc,       \* analyze_logs: idle, start, loop or returned
    first_run,        \* traffic: what an earlier replay of the request returned
    log_line,         \* log parser: the line handed to parse_line
    flow,             \* LogParserService.parse_line: result
    line_parsed,      \* log parser: parse_line has returned
    db_rules,         \* change workflow: the stored rules, in storage order
    changes,          \* change workflow: the stored Change records
    request,          \* change workflow: the last request received
    response,         \* change workflow: what the last request returned
    cover_pair,       \* coverage: the covering and the covered address string
    cover_out,        \* coverage: what _covers returned or raised
    subset_out,       \* coverage: what _is_network_subset returned or raised
    sub_groups,       \* object usage: group name -> names of its sub-groups
    used_names,       \* object usage: names found in the rules
    names_left,       \* object usage: names the marking loop has not taken yet
    processed_groups, \* object usage: names mark_group_used has been entered for
    call_stack,       \* object usage: the calls of mark_group_used in progress
    groups_used,      \* object usage: groups with is_unused = False
    objects_used,     \* object usage: objects with is_unused = False
    visits,           \* object usage: name -> times its group was looked up
    usage_pc,         \* object usage: idle, marking or done
    config_lines,     \* config parser: the lines of the configuration
    line_no,          \* config parser: lines the loop has gone through
    structured_rules, \* config parser: the top-level rules and their children
    current_parent,   \* config parser: position of the parent rule, 0 for None
    sequence_counter, \* config parser: the global sequence counter
    parser_pc,        \* config parser: idle, parsing or returned
    object_lines,     \* object extraction: the lines of the configuration
    object_line_no,   \* object extraction: lines the loop has gone through
    extracted_objects,  \* object extraction: the objects closed so far
    extracted_groups, \* object extraction: the groups closed so far
    current_obj,      \* object extraction: the open object, or NoBlock
    current_group,    \* object extraction: the open group, or NoBlock
    objects_pc,       \* object extraction: idle, parsing or returned
    recommendations,  \* analyze_logs: the recommendations returned
    upload_lines,     \* config upload: the lines of the text that is parsed
    brief_lines,      \* config upload: the lines of 'show access-list brief'
    upload_mode,      \* config upload: none, legacy or contexts
    stored_rules,     \* config upload: the FirewallRule rows created
    rules_done,       \* config upload: entries of rules_data gone through
    upload_pc         \* config upload: idle, rules or committed

analysisVars == <<rules, stats, findings, shadowed_issues, merge_groups, done>>

migrationVars ==
    <<contexts_data, resolution_strategy, conflict_report, unified, migrated>>

trafficVars ==
    <<traffic_rules, parsed_logs, processed_rules, rule_stats, unmatched_count,
      denied_count, total_logs, log_index, traffic_pc, first_run>>

logVars == <<log_line, flow, line_parsed>>

\* The state of the services modelled further down.
changeVars == <<db_rules, changes, request, response>>

coverVars == <<cover_pair, cover_out, subset_out>>

usageVars ==
    <<sub_groups, used_names, names_left, processed_groups, call_stack,
      groups_used, objects_used, visits, usage_pc>>

parserVars ==
    <<config_lines, line_no, structured_rules, current_parent,
      sequence_counter, parser_pc>>

objectVars ==
    <<object_lines, object_line_no, extracted_objects, extracted_groups,
      current_obj, current_group, objects_pc>>

\* The state of the services modelled last.
recVars == <<recommendations>>

uploadVars ==
    <<upload_lines, brief_lines, upload_mode, stored_rules, rules_done,
      upload_pc>>

moreVars == <<objectVars, recVars, uploadVars>>

laterVars == <<logVars, changeVars, coverVars, usageVars, parserVars, moreVars>>

\* What the steps of one service leave unchanged.
logOthers ==
    <<analysisVars, migrationVars, trafficVars, changeVars, coverVars, usageVars,
      parserVars, moreVars>>

changeOthers ==
    <<analysisVars, migrationVars, trafficVars, logVars, coverVars, usageVars,
      parserVars, moreVars>>

coverOthers ==
    <<analysisVars, migrationVars, trafficVars, logVars, changeVars, usageVars,
      parserVars, moreVars>>

parserOthers ==
    <<analysisVars, migrationVars, trafficVars, logVars, changeVars, coverVars,
      usageVars, moreVars>>

usageOthers ==
    <<analysisVars, migrationVars, trafficVars, logVars, changeVars, coverVars,
      parserVars, moreVars>>

objectOthers ==
    <<analysisVars, migrationVars, trafficVars, logVars, changeVars, coverVars,
      usageVars, parserVars, recVars, uploadVars>>

\* What the last step of analyze_logs leaves unchanged outside the replay.
returnOthers ==
    <<analysisVars, migrationVars, logVars, changeVars, coverVars, usageVars,
      parserVars, objectVars, uploadVars>>

vars == <<analysisVars, migrationVars, trafficVars, laterVars>>

----------------------------------------------------------------------------
\* Bounds of the model.

MaxRules == 3
MaxPairRules == 2
MaxLongRules == 8
MaxContexts == 2
MaxTrafficRules == 2
MaxLogs == 2

----------------------------------------------------------------------------
\* Strings of the rule fields.  A string is a TLA+ string; the character
\* level operations the code applies to it (lower, strip, '/' in, the
\* dotted-quad parse of the ipaddress module) are given on the strings the
\* model uses.

lower(s) ==
    CASE s = "ANY" -> "any"
      [] s = "WEB" -> "web"
      [] s = "TCP" -> "tcp"
      [] s = "UDP" -> "udp"
      [] s = "ICMP" -> "icmp"
      [] s = "Permit" -> "permit"
      [] s = "any " -> "any "
      [] OTHER -> s

strip(s) ==
    CASE s = "any " -> "any"
      [] OTHER -> s

NotAnAddress == [octets |-> <<>>, prefix |-> -1]

\* The dotted-quad text of a string: its four octets and the number after
\* '/', or prefix -1 when the string has no '/'.  Strings that are no
\* address text (object names, service strings) have no octets.
AddressText(s) ==
    CASE s = "0.0.0.0/0"   -> [octets |-> <<0, 0, 0, 0>>,  prefix |-> 0]
      [] s = "10.0.0.0/8"  -> [octets |-> <<10, 0, 0, 0>>, prefix |-> 8]
      [] s = "10.0.0.0/24" -> [octets |-> <<10, 0, 0, 0>>, prefix |-> 24]
      [] s = "10.0.0.5/24" -> [octets |-> <<10, 0, 0, 5>>, prefix |-> 24]
      [] s = "10.0.0.5/32" -> [octets |-> <<10, 0, 0, 5>>, prefix |-> 32]
      [] s = "10.0.0.5"    -> [octets |-> <<10, 0, 0, 5>>, prefix |-> -1]
      [] s = "10.0.1.7"    -> [octets |-> <<10, 0, 1, 7>>, prefix |-> -1]
      [] OTHER -> NotAnAddress

NotAnAddress6 == [high |-> 0, prefix |-> -1]

\* The IPv6 text of a string: its leading 32 bits and the number after '/'.
Address6Text(s) ==
    CASE s = "2001:db8::/32" -> [high |-> 536939960, prefix |-> 32]
      [] s = "::/0"          -> [high |-> 0, prefix |-> 0]
      [] OTHER -> NotAnAddress6

\* '/' in val
HasSlash(s) ==
    \/ AddressText(s).prefix >= 0
    \/ Address6Text(s).prefix >= 0
    \/ s \in {"tcp/80", "tcp/443", "udp/53"}

AddrValue(o) == ((o[1] * 256 + o[2]) * 256 + o[3]) * 256 + o[4]

\* x >> k for a 31-bit x
ShiftRight(x, k) == IF k >= 31 THEN 0 ELSE x \div (2 ^ k)

NoNet == [ok |-> FALSE, base |-> 0, len |-> 0, version |-> 0]

Net(base, len) == [ok |-> TRUE, base |-> base, len |-> len, version |-> 4]

\* An IPv6 network of at most 32 prefix bits.
Net6(base, len) == [ok |-> TRUE, base |-> base, len |-> len, version |-> 6]

\* ipaddress.ip_network(text, strict=False): the host bits are masked off.
ip_network(s) ==
    LET t == AddressText(s) IN
    IF Address6Text(s).prefix >= 0
    THEN Net6(IF Address6Text(s).prefix = 0 THEN 0 ELSE Address6Text(s).high,
              Address6Text(s).prefix)
    ELSE IF t = NotAnAddress \/ t.prefix < 0 \/ t.prefix > 32 THEN NoNet
    ELSE LET k == 32 - t.prefix
             v == AddrValue(t.octets)
         IN  Net(IF k >= 31 THEN 0 ELSE ShiftRight(v, k) * (2 ^ k), t.prefix)

\* ipaddress.ip_network(f"{val}/32") for a val without '/'
ip_network_host(s) ==
    LET t == AddressText(s) IN
    IF t = NotAnAddress \/ t.prefix >= 0 THEN NoNet
    ELSE Net(AddrValue(t.octets), 32)

\* a.subnet_of(b) raises TypeError: the networks are not of the same version.
subnet_of_raises(a, b) == a.version # b.version

\* a.subnet_of(b), for networks of the same version
subnet_of(a, b) ==
    /\ b.len <= a.len
    /\ ShiftRight(a.base, 32 - b.len) = ShiftRight(b.base, 32 - b.len)

----------------------------------------------------------------------------
\* AnalysisEngine._covers

to_net(val) ==
    LET v == lower(strip(val)) IN
    IF v = "any" \/ v = "0.0.0.0/0" THEN Net(0, 0)
    ELSE IF ~HasSlash(v) THEN ip_network_host(v)
    ELSE ip_network(v)

\* Variant: the fallback without the equality test.
AddressCoverNoEq(a1, a2) ==
    LET n1 == to_net(a1)
        n2 == to_net(a2)
    IN  IF ~n1.ok \/ ~n2.ok
        THEN a1 = "any" \/ a1 = "0.0.0.0/0"
        ELSE subnet_of(n2, n1)

\* The source (or destination) test of _covers: a1 is the covering side.
AddressCover(a1, a2) ==
    LET n1 == to_net(a1)
        n2 == to_net(a2)
    IN  IF ~n1.ok \/ ~n2.ok
        THEN a1 = "any" \/ a1 = "0.0.0.0/0" \/ a1 = a2
        ELSE subnet_of(n2, n1)

\* The source (or destination) test of _covers raises.
AddressCoverRaises(a1, a2) ==
    LET n1 == to_net(a1)
        n2 == to_net(a2)
    IN  n1.ok /\ n2.ok /\ subnet_of_raises(n2, n1)

ServiceCover(s1, s2) == s1 = s2 \/ s1 = "ip" \/ s1 = "any"

Covers(r1, r2) ==
    /\ AddressCover(r1.source, r2.source)
    /\ AddressCover(r1.destination, r2.destination)
    /\ ServiceCover(r1.service, r2.service)

----------------------------------------------------------------------------
\* ShadowDetectorService._is_network_subset

get_net(val) == IF ~HasSlash(val) THEN ip_network_host(val) ELSE ip_network(val)

IsNetworkSubset(sub0, super0) ==
    LET sub == strip(lower(sub0))
        super == strip(lower(super0))
    IN  IF super = "any" \/ super = "0.0.0.0/0" THEN TRUE
        ELSE IF sub = "any" \/ sub = "0.0.0.0/0" THEN FALSE
        ELSE IF ~get_net(sub).ok \/ ~get_net(super).ok THEN sub = super
        ELSE subnet_of(get_net(sub), get_net(super))

\* _is_network_subset raises: TypeError is not caught by `except ValueError`.
IsNetworkSubsetRaises(sub0, super0) ==
    LET sub == strip(lower(sub0))
        super == strip(lower(super0))
    IN  /\ super \notin {"any", "0.0.0.0/0"}
        /\ sub \notin {"any", "0.0.0.0/0"}
        /\ get_net(sub).ok /\ get_net(super).ok
        /\ subnet_of_raises(get_net(sub), get_net(super))

\* The three subset tests of detect_shadowed_rules and identify_candidates.
SubsetCover(prior, current) ==
    /\ IsNetworkSubset(current.source, prior.source)
    /\ IsNetworkSubset(current.destination, prior.destination)
    /\ IsNetworkSubset(current.service, prior.service)

----------------------------------------------------------------------------
\* AnalysisEngine.analyze

InitStats(rs) ==
    [totalRules |-> Len(rs), unusedRules |-> 0, redundantRules |-> 0,
     shadowedRules |-> 0, highRiskRules |-> 0, score |-> 100]

Finding(type, severity, rule, field, prior) ==
    [type |-> type, severity |-> severity, rule_id |-> rule.id,
     field |-> field, covered_by |-> prior]

IsPermit(rule) == lower(rule.action) \in {"allow", "permit"}

\* Variant: the any-any rule deducted like a destination-any rule.
RiskCheckFlat(acc, rule) ==
    IF lower(rule.destination) = "any" /\ IsPermit(rule)
    THEN [stats |-> [acc.stats EXCEPT !.highRiskRules = @ + 1, !.score = @ - 5],
          findings |-> Append(acc.findings,
                              Finding("high-risk",
                                      IF lower(rule.source) = "any"
                                      THEN "critical" ELSE "high", rule, "", 0))]
    ELSE IF lower(rule.source) = "any" /\ IsPermit(rule)
    THEN [stats |-> [acc.stats EXCEPT !.score = @ - 2],
          findings |-> Append(acc.findings,
                              Finding("risk", "medium", rule, "", 0))]
    ELSE acc

\* Variant: the three any-derived checks as independent ifs.
RiskCheckEach(acc, rule) ==
    LET r_source == lower(rule.source)
        r_dest == lower(rule.destination)
        a == IF r_source = "any" /\ r_dest = "any" /\ IsPermit(rule)
             THEN [stats |-> [acc.stats EXCEPT !.highRiskRules = @ + 1, !.score = @ - 10],
                   findings |-> Append(acc.findings,
                                       Finding("high-risk", "critical", rule, "", 0))]
             ELSE acc
        b == IF r_dest = "any" /\ IsPermit(rule)
             THEN [stats |-> [a.stats EXCEPT !.highRiskRules = @ + 1, !.score = @ - 5],
                   findings |-> Append(a.findings,
                                       Finding("high-risk", "high", rule, "", 0))]
             ELSE a
    IN  IF r_source = "any" /\ IsPermit(rule)
        THEN [stats |-> [b.stats EXCEPT !.score = @ - 2],
              findings |-> Append(b.findings,
                                  Finding("risk", "medium", rule, "", 0))]
        ELSE b

\* 1a-1c: the any-derived checks, an if / elif / elif chain.
RiskCheck(acc, rule) ==
    LET r_source == lower(rule.source)
        r_dest == lower(rule.destination)
    IN  IF r_source = "any" /\ r_dest = "any" /\ IsPermit(rule)
        THEN [stats |-> [acc.stats EXCEPT !.highRiskRules = @ + 1, !.score = @ - 10],
              findings |-> Append(acc.findings,
                                  Finding("high-risk", "critical", rule, "", 0))]
        ELSE IF r_dest = "any" /\ IsPermit(rule)
        THEN [stats |-> [acc.stats EXCEPT !.highRiskRules = @ + 1, !.score = @ - 5],
              findings |-> Append(acc.findings,
                                  Finding("high-risk", "high", rule, "", 0))]
        ELSE IF r_source = "any" /\ IsPermit(rule)
        THEN [stats |-> [acc.stats EXCEPT !.score = @ - 2],
              findings |-> Append(acc.findings,
                                  Finding("risk", "medium", rule, "", 0))]
        ELSE acc

\* 1d: one field of the supernet check.
SupernetField(acc, rule, field, val) ==
    IF val = "any" \/ val = "0.0.0.0/0" THEN acc
    ELSE IF HasSlash(val) /\ AddressText(val).prefix >= 0
            /\ AddressText(val).prefix < 24
    THEN [acc EXCEPT !.findings =
              Append(@, Finding("supernet", "medium", rule, field, 0))]
    ELSE acc

SupernetCheck(acc, rule) ==
    SupernetField(SupernetField(acc, rule, "source", rule.source),
                  rule, "destination", rule.destination)

\* 1e: last_hit is "none", "recent" or "old" (more than 90 days before now).
IsUnused(rule) ==
    IF rule.hits = 0 THEN TRUE
    ELSE rule.last_hit = "old"

UnusedCheck(acc, rule) ==
    IF IsUnused(rule)
    THEN [stats |-> [acc.stats EXCEPT !.unusedRules = @ + 1, !.score = @ - 1],
          findings |-> Append(acc.findings,
                              Finding("unused", "medium", rule, "", 0))]
    ELSE acc

\* The filter applied to a prior rule before _covers is asked.
ServiceFilter(prior, rule) ==
    ~(prior.service # rule.service /\ prior.service # "ip" /\ rule.service # "ip")

PairFinding(acc, prior, rule) ==
    IF prior.action = rule.action
    THEN [stats |-> [acc.stats EXCEPT !.redundantRules = @ + 1, !.score = @ - 2],
          findings |-> Append(acc.findings,
                              Finding("redundant", "low", rule, "", prior.id))]
    ELSE [stats |-> [acc.stats EXCEPT !.shadowedRules = @ + 1, !.score = @ - 5],
          findings |-> Append(acc.findings,
                              Finding("shadowed", "high", rule, "", prior.id))]

\* Variants of the scan: without the break, and from the nearest prior rule.
RECURSIVE PairScanNoBreak(_, _, _, _)
PairScanNoBreak(acc, rs, i, j) ==
    IF j >= i THEN acc
    ELSE IF rs[j].name # rs[i].name THEN PairScanNoBreak(acc, rs, i, j + 1)
    ELSE IF ~ServiceFilter(rs[j], rs[i]) THEN PairScanNoBreak(acc, rs, i, j + 1)
    ELSE IF Covers(rs[j], rs[i])
         THEN PairScanNoBreak(PairFinding(acc, rs[j], rs[i]), rs, i, j + 1)
    ELSE PairScanNoBreak(acc, rs, i, j + 1)

RECURSIVE PairScanDown(_, _, _, _)
PairScanDown(acc, rs, i, j) ==
    IF j < 1 THEN acc
    ELSE IF rs[j].name # rs[i].name THEN PairScanDown(acc, rs, i, j - 1)
    ELSE IF ~ServiceFilter(rs[j], rs[i]) THEN PairScanDown(acc, rs, i, j - 1)
    ELSE IF Covers(rs[j], rs[i]) THEN PairFinding(acc, rs[j], rs[i])
    ELSE PairScanDown(acc, rs, i, j - 1)

PairScanNearest(acc, rs, i, j) == PairScanDown(acc, rs, i, i - 1)

\* 2: the scan over the prior rules j..i-1, left at the first cover.
RECURSIVE PairScan(_, _, _, _)
PairScan(acc, rs, i, j) ==
    IF j >= i THEN acc
    ELSE IF rs[j].name # rs[i].name THEN PairScan(acc, rs, i, j + 1)
    ELSE IF ~ServiceFilter(rs[j], rs[i]) THEN PairScan(acc, rs, i, j + 1)
    ELSE IF Covers(rs[j], rs[i]) THEN PairFinding(acc, rs[j], rs[i])
    ELSE PairScan(acc, rs, i, j + 1)

\* One iteration of the loop over the rules.
AnalyzeRule(acc, rs, i) ==
    PairScan(UnusedCheck(SupernetCheck(RiskCheck(acc, rs[i]), rs[i]), rs[i]),
             rs, i, 1)

RECURSIVE AnalyzeLoop(_, _, _)
AnalyzeLoop(acc, rs, i) ==
    IF i > Len(rs) THEN acc
    ELSE AnalyzeLoop(AnalyzeRule(acc, rs, i), rs, i + 1)

Max(a, b) == IF a >= b THEN a ELSE b

Min(a, b) == IF a <= b THEN a ELSE b

\* Variant: the score left as accumulated.
NormalizeScoreNone(score) == score

NormalizeScore(score) == Max(0, Min(100, score))

analyze(rs) ==
    LET acc == AnalyzeLoop([stats |-> InitStats(rs), findings |-> <<>>], rs, 1)
    IN  [stats |-> [acc.stats EXCEPT !.score = NormalizeScore(@)],
         findings |-> acc.findings]

----------------------------------------------------------------------------
\* ShadowDetectorService.detect_shadowed_rules

\* sorted(rules, key=sequence): a stable insertion sort.
RECURSIVE InsertBySequence(_, _)
InsertBySequence(sorted, r) ==
    IF sorted = <<>> THEN <<r>>
    ELSE IF Head(sorted).sequence <= r.sequence
         THEN <<Head(sorted)>> \o InsertBySequence(Tail(sorted), r)
         ELSE <<r>> \o sorted

RECURSIVE SortBySequence(_, _)
SortBySequence(sorted, rest) ==
    IF rest = <<>> THEN sorted
    ELSE SortBySequence(InsertBySequence(sorted, Head(rest)), Tail(rest))

normalize_action(a) == IF a \in {"allow", "permit"} THEN "permit" ELSE "deny"

ShadowIssue(rs, i, j) ==
    [shadowed_rule |-> rs[i].id, shadowed_line |-> i,
     shadowing_rule |-> rs[j].id, shadowing_line |-> j]

\* The scan of rule i over the prior rules j..i-1, left at the first cover.
RECURSIVE ShadowScan(_, _, _, _)
ShadowScan(issues, rs, i, j) ==
    IF j >= i THEN issues
    ELSE IF rs[j].name # rs[i].name THEN ShadowScan(issues, rs, i, j + 1)
    ELSE IF SubsetCover(rs[j], rs[i])
         THEN IF normalize_action(lower(rs[j].action))
                    # normalize_action(lower(rs[i].action))
              THEN Append(issues, ShadowIssue(rs, i, j))
              ELSE issues
    ELSE ShadowScan(issues, rs, i, j + 1)

RECURSIVE ShadowLoop(_, _, _)
ShadowLoop(issues, rs, i) ==
    IF i > Len(rs) THEN issues
    ELSE ShadowLoop(ShadowScan(issues, rs, i, 1), rs, i + 1)

detect_shadowed_rules(rs) == ShadowLoop(<<>>, SortBySequence(<<>>, rs), 1)

----------------------------------------------------------------------------
\* MergerService.identify_candidates

\* The rules of one ACL, in query order.
RECURSIVE AclRules(_, _)
AclRules(rs, acl) ==
    IF rs = <<>> THEN <<>>
    ELSE IF Head(rs).name = acl THEN <<Head(rs)>> \o AclRules(Tail(rs), acl)
    ELSE AclRules(Tail(rs), acl)

\* matches: master rule id -> candidates, as a set of <<master, candidate>>.
RECURSIVE MergeScan(_, _, _, _)
MergeScan(matches, rs, i, j) ==
    IF j >= i THEN matches
    ELSE IF rs[j].action # rs[i].action THEN MergeScan(matches, rs, i, j + 1)
    ELSE IF SubsetCover(rs[j], rs[i]) THEN matches \cup {<<rs[j].id, rs[i].id>>}
    ELSE MergeScan(matches, rs, i, j + 1)

RECURSIVE MergeLoop(_, _, _)
MergeLoop(matches, rs, i) ==
    IF i > Len(rs) THEN matches
    ELSE MergeLoop(MergeScan(matches, rs, i, 1), rs, i + 1)

MergeGroup(acl, matches, master) ==
    [acl |-> acl, master |-> master,
     candidates |-> {m[2] : m \in {x \in matches : x[1] = master}}]

identify_candidates(rs) ==
    UNION { LET matches == MergeLoop({}, AclRules(rs, acl), 1)
            IN  {MergeGroup(acl, matches, m[1]) : m \in matches}
          : acl \in {rs[k].name : k \in 1..Len(rs)} }

----------------------------------------------------------------------------
\* The rule lists the analysis services are run on.

Templates(names, sources, destinations, services, actions, hitss, last_hits) ==
    [name : names, source : sources, destination : destinations,
     service : services, action : actions, hits : hitss, last_hit : last_hits]

\* Nested networks in two ACLs.
ChainRules ==
    Templates({"A", "B"}, {"10.0.0.0/8", "10.0.0.0/24", "10.0.0.5/32"}, {"any"},
              {"ip"}, {"permit", "deny"}, {5}, {"none"})

\* The same scope under different services.
ServiceRules ==
    Templates({"A"}, {"10.0.0.0/24"}, {"any"},
              {"ip", "any", "tcp/80"}, {"permit", "deny"}, {5}, {"none"})

\* Keywords, object references and host bits.
ObjectRules ==
    Templates({"A"}, {"any", "ANY", "any ", "WEB", "web", "10.0.0.5/24"}, {"any"},
              {"ip"}, {"permit", "deny"}, {5}, {"none"})

\* Permissive, unused and stale rules.
RiskRules ==
    Templates({"A"}, {"any", "10.0.0.0/8"}, {"any", "10.0.1.7"},
              {"ip"}, {"permit"}, {0}, {"none"})
    \cup Templates({"A"}, {"any", "10.0.0.0/8"}, {"any", "10.0.1.7"},
                   {"ip"}, {"permit"}, {5}, {"none", "old"})

\* Action synonyms.
ActionRules ==
    Templates({"A"}, {"10.0.0.0/24", "10.0.0.5/32"}, {"any"},
              {"ip"}, {"permit", "allow", "deny", "drop"}, {5}, {"recent"})

\* Long rule bases of permissive, unused, covered rules.
LongRules ==
    Templates({"A"}, {"any", "10.0.0.5"}, {"any"},
              {"ip"}, {"permit"}, {0}, {"none"})

\* Broad networks in either field, next to the any keyword.
SupernetRules ==
    Templates({"A"}, {"any", "10.0.0.0/8"}, {"any", "10.0.0.0/8"},
              {"ip"}, {"permit"}, {0}, {"none"})

SeqsUpTo(S, n) == UNION {[1..k -> S] : k \in 0..n}

\* The stored rule: its id and its sequence are its position.
Stored(templates) ==
    [k \in 1..Len(templates) |->
        [id |-> k, sequence |-> k, name |-> templates[k].name,
         source |-> templates[k].source,
         destination |-> templates[k].destination,
         service |-> templates[k].service, action |-> templates[k].action,
         hits |-> templates[k].hits, last_hit |-> templates[k].last_hit]]

RuleLists ==
    {Stored(l) : l \in SeqsUpTo(ChainRules, MaxRules)
                       \cup SeqsUpTo(ServiceRules, MaxRules)
                       \cup SeqsUpTo(ObjectRules, MaxPairRules)
                       \cup SeqsUpTo(RiskRules, MaxPairRules)
                       \cup SeqsUpTo(ActionRules, MaxPairRules)
                       \cup SeqsUpTo(SupernetRules, MaxPairRules)
                       \cup SeqsUpTo(LongRules, MaxLongRules)}

----------------------------------------------------------------------------
\* The analysis services as operations on the state.

NoStats == InitStats(<<>>)

NoUnified == [objects |-> <<>>, rules |-> <<>>]

NoReport == [conflicts |-> <<>>, clean_objects |-> <<>>]

\* No migration request.
MigrationIdle ==
    /\ contexts_data = <<>>
    /\ resolution_strategy = "auto_rename_context"
    /\ conflict_report = NoReport
    /\ unified = NoUnified
    /\ migrated = {}

\* No traffic log under analysis.
TrafficIdle ==
    /\ traffic_rules = <<>>
    /\ parsed_logs = <<>>
    /\ processed_rules = <<>>
    /\ rule_stats = <<>>
    /\ unmatched_count = 0
    /\ denied_count = 0
    /\ total_logs = 0
    /\ log_index = 0
    /\ traffic_pc = "idle"
    /\ first_run = <<>>

\* No log line being parsed.
LogIdle ==
    /\ log_line = <<>>
    /\ flow = <<>>
    /\ line_parsed = FALSE

NoRequest == [op |-> "none"]

\* No stored rules and no change requests.
ChangeIdle ==
    /\ db_rules = <<>>
    /\ changes = <<>>
    /\ request = NoRequest
    /\ response = NoRequest

\* No pair of strings under comparison.
CoverIdle ==
    /\ cover_pair = <<>>
    /\ cover_out = "none"
    /\ subset_out = "none"

\* No usage analysis.
UsageIdle ==
    /\ sub_groups = <<>>
    /\ used_names = {}
    /\ names_left = {}
    /\ processed_groups = {}
    /\ call_stack = <<>>
    /\ groups_used = {}
    /\ objects_used = {}
    /\ visits = <<>>
    /\ usage_pc = "idle"

\* No configuration being parsed.
ParserIdle ==
    /\ config_lines = <<>>
    /\ line_no = 0
    /\ structured_rules = <<>>
    /\ current_parent = 0
    /\ sequence_counter = 0
    /\ parser_pc = "idle"

\* Python's None for a block that is not open.
NoBlock == [name |-> "none"]

ObjectsIdle ==
    /\ object_lines = <<>>
    /\ object_line_no = 0
    /\ extracted_objects = <<>>
    /\ extracted_groups = <<>>
    /\ current_obj = NoBlock
    /\ current_group = NoBlock
    /\ objects_pc = "idle"

UploadIdle ==
    /\ upload_lines = <<>>
    /\ brief_lines = <<>>
    /\ upload_mode = "none"
    /\ stored_rules = <<>>
    /\ rules_done = 0
    /\ upload_pc = "idle"

MoreIdle == ObjectsIdle /\ recommendations = <<>> /\ UploadIdle

LaterIdle ==
    LogIdle /\ ChangeIdle /\ CoverIdle /\ UsageIdle /\ ParserIdle /\ MoreIdle

\* No rule list under analysis.
AnalysisIdle ==
    /\ rules = <<>>
    /\ stats = NoStats
    /\ findings = <<>>
    /\ shadowed_issues = <<>>
    /\ merge_groups = {}
    /\ done = {}

Init ==
    /\ rules \in RuleLists
    /\ stats = NoStats
    /\ findings = <<>>
    /\ shadowed_issues = <<>>
    /\ merge_groups = {}
    /\ done = {}
    /\ MigrationIdle
    /\ TrafficIdle
    /\ LaterIdle

Analyze ==
    /\ "analyze" \notin done
    /\ stats' = analyze(rules).stats
    /\ findings' = analyze(rules).findings
    /\ done' = done \cup {"analyze"}
    /\ UNCHANGED <<rules, shadowed_issues, merge_groups, migrationVars, trafficVars, laterVars>>

DetectShadowed ==
    /\ "shadow" \notin done
    /\ shadowed_issues' = detect_shadowed_rules(rules)
    /\ done' = done \cup {"shadow"}
    /\ UNCHANGED <<rules, stats, findings, merge_groups, migrationVars, trafficVars, laterVars>>

IdentifyCandidates ==
    /\ "merge" \notin done
    /\ merge_groups' = identify_candidates(rules)
    /\ done' = done \cup {"merge"}
    /\ UNCHANGED <<rules, stats, findings, shadowed_issues, migrationVars, trafficVars, laterVars>>

Next == Analyze \/ DetectShadowed \/ IdentifyCandidates

Spec == Init /\ [][Next]_vars

----------------------------------------------------------------------------
\* Properties of the analysis services.

Analyzed == "analyze" \in done

ShadowDetected == "shadow" \in done

SameAcl(a, b) == rules[a].name = rules[b].name

\* The findings of one type emitted for rule b.
FindingsFor(b, type) ==
    {k \in 1..Len(findings) :
        findings[k].rule_id = rules[b].id /\ findings[k].type = type}

\* The prior rules of b that the scan of analyze stops at: same ACL, passing
\* the service filter, covering b.
AnalyzeCoverers(b) ==
    {a \in 1..(b - 1) :
        SameAcl(a, b) /\ ServiceFilter(rules[a], rules[b])
        /\ Covers(rules[a], rules[b])}

\* The prior rules of b that the scan of detect_shadowed_rules stops at.
ShadowCoverers(b) ==
    {a \in 1..(b - 1) : SameAcl(a, b) /\ SubsetCover(rules[a], rules[b])}

First(S) == CHOOSE a \in S : \A x \in S : a <= x

PairVerdict(a, b) ==
    IF rules[a].action = rules[b].action
    THEN Cardinality(FindingsFor(b, "redundant")) = 1
         /\ FindingsFor(b, "shadowed") = {}
    ELSE Cardinality(FindingsFor(b, "shadowed")) = 1
         /\ FindingsFor(b, "redundant") = {}

\* C1 as stated: every same-ACL pair (a, b) with a before b and a covering b
\* decides the finding of b: equal actions give exactly one redundant and no
\* shadowed finding for b, different actions exactly one shadowed and no
\* redundant finding.
C1_EveryCoveringPair ==
    Analyzed =>
        \A b \in 1..Len(rules) : \A a \in 1..(b - 1) :
            (SameAcl(a, b) /\ Covers(rules[a], rules[b])) => PairVerdict(a, b)

\* C1 amended: a rule b with a same-ACL predecessor that passes the service
\* filter and covers b gets exactly one redundant-or-shadowed finding, decided
\* by the first such predecessor in list order (redundant on equal actions,
\* shadowed otherwise); a rule without such a predecessor gets neither.
C1_FirstCoveringPair ==
    Analyzed =>
        \A b \in 1..Len(rules) :
            IF AnalyzeCoverers(b) = {}
            THEN FindingsFor(b, "redundant") = {} /\ FindingsFor(b, "shadowed") = {}
            ELSE PairVerdict(First(AnalyzeCoverers(b)), b)

\* A rule covered by two predecessors, the first with its own action and the
\* second with the other one, has been analysed.
C1_Witness ==
    /\ Analyzed
    /\ \E b \in 1..Len(rules) : \E a1, a2 \in AnalyzeCoverers(b) :
          /\ a1 < a2
          /\ rules[a1].action = rules[b].action
          /\ rules[a2].action # rules[b].action
          /\ Cardinality(FindingsFor(b, "redundant")) = 1

PairFindings(c) == FindingsFor(c, "redundant") \cup FindingsFor(c, "shadowed")

IssuesFor(c) ==
    {k \in 1..Len(shadowed_issues) : shadowed_issues[k].shadowed_rule = rules[c].id}

\* The same-ACL chains a, b, c in list order with a covering b and b covering
\* c (and so a covering c) under the coverage test C.
ChainsBy(C(_, _)) ==
    {t \in (1..Len(rules)) \X (1..Len(rules)) \X (1..Len(rules)) :
        /\ t[1] < t[2] /\ t[2] < t[3]
        /\ SameAcl(t[1], t[2]) /\ SameAcl(t[2], t[3])
        /\ C(rules[t[1]], rules[t[2]]) /\ C(rules[t[2]], rules[t[3]])
        /\ C(rules[t[1]], rules[t[3]])}

\* C2 as stated: in a chain A, B, C the finding for C names B, the nearest
\* covering predecessor, in analyze and in detect_shadowed_rules.
C2_NearestCover ==
    /\ Analyzed =>
          \A t \in ChainsBy(Covers) : \A k \in PairFindings(t[3]) :
              findings[k].covered_by = rules[t[2]].id
    /\ ShadowDetected =>
          \A t \in ChainsBy(SubsetCover) : \A k \in IssuesFor(t[3]) :
              shadowed_issues[k].shadowing_rule = rules[t[2]].id

\* C2 amended: the finding for a covered rule names the first covering
\* predecessor in evaluation order, so in a chain A, B, C the finding for C
\* never names B: in analyze among the predecessors passing its service
\* filter and covering under _covers, in detect_shadowed_rules among the
\* predecessors covering under its subset tests.
C2_FirstCover ==
    /\ Analyzed =>
          /\ \A c \in 1..Len(rules) : \A k \in PairFindings(c) :
                /\ AnalyzeCoverers(c) # {}
                /\ findings[k].covered_by = rules[First(AnalyzeCoverers(c))].id
          /\ \A t \in ChainsBy(Covers) :
                ServiceFilter(rules[t[1]], rules[t[3]]) =>
                    /\ PairFindings(t[3]) # {}
                    /\ \A k \in PairFindings(t[3]) :
                          findings[k].covered_by # rules[t[2]].id
    /\ ShadowDetected =>
          /\ \A c \in 1..Len(rules) : \A k \in IssuesFor(c) :
                /\ ShadowCoverers(c) # {}
                /\ shadowed_issues[k].shadowing_rule
                       = rules[First(ShadowCoverers(c))].id
          /\ \A t \in ChainsBy(SubsetCover) : \A k \in IssuesFor(t[3]) :
                shadowed_issues[k].shadowing_rule # rules[t[2]].id

\* A chain A, B, C has been analysed by both services and C is reported
\* against A by both.
C2_Witness ==
    /\ Analyzed /\ ShadowDetected
    /\ \E t \in ChainsBy(Covers) \cap ChainsBy(SubsetCover) :
          /\ \E k \in PairFindings(t[3]) : findings[k].covered_by = rules[t[1]].id
          /\ \E k \in IssuesFor(t[3]) :
                shadowed_issues[k].shadowing_rule = rules[t[1]].id

IsAnyAnyPermit(r) ==
    r.name = "A" /\ r.source = "any" /\ r.destination = "any" /\ r.action = "permit"

OnlyAnyAnyFinding ==
    /\ Len(findings) = 1
    /\ findings[1].type = "high-risk" /\ findings[1].severity = "critical"
    /\ stats.score = 90

\* C3 as stated: the single rule {A, any, any, permit} yields exactly the
\* critical any-any finding and score 90.
C3_SingleAnyAny ==
    (Analyzed /\ Len(rules) = 1 /\ IsAnyAnyPermit(rules[1])) => OnlyAnyAnyFinding

\* C3 amended: the single rule {A, any, any, permit} yields exactly the
\* critical any-any finding and score 90 when it has a nonzero hit count and
\* no last hit older than 90 days; with zero (or no) hit count or a stale last
\* hit it yields the any-any finding followed by an unused finding, score 89.
C3_SingleAnyAnyByHits ==
    (Analyzed /\ Len(rules) = 1 /\ IsAnyAnyPermit(rules[1])) =>
        IF rules[1].hits # 0 /\ rules[1].last_hit # "old"
        THEN OnlyAnyAnyFinding
        ELSE /\ Len(findings) = 2
             /\ findings[1].type = "high-risk" /\ findings[1].severity = "critical"
             /\ findings[2].type = "unused"
             /\ stats.score = 89

\* The single any-any permit rule with hits has been analysed.
C3_Witness ==
    /\ Analyzed /\ Len(rules) = 1 /\ IsAnyAnyPermit(rules[1])
    /\ rules[1].hits = 5 /\ rules[1].last_hit = "none"
    /\ OnlyAnyAnyFinding

\* C4: the score analyze returns is an integer in [0, 100].
C4_ScoreInRange == stats.score \in 0..100

\* A rule base whose deductions exceed 100 has been analysed.
C4_Witness ==
    /\ Analyzed
    /\ AnalyzeLoop([stats |-> InitStats(rules), findings |-> <<>>],
                   rules, 1).stats.score < 0
    /\ stats.score = 0

\* C5: every rule covers itself, under _covers and under the subset tests.
C5_SelfCover ==
    \A k \in 1..Len(rules) :
        Covers(rules[k], rules[k]) /\ SubsetCover(rules[k], rules[k])

\* A rule whose source is no network (an object reference) is in the list
\* the services ran on.
C5_Witness ==
    /\ Analyzed /\ ShadowDetected
    /\ \E k \in 1..Len(rules) :
          ~to_net(rules[k].source).ok /\ Covers(rules[k], rules[k])

AnalyzeShadowed ==
    {findings[k].rule_id : k \in {x \in 1..Len(findings) : findings[x].type = "shadowed"}}

DetectorShadowed ==
    {shadowed_issues[k].shadowed_rule : k \in 1..Len(shadowed_issues)}

\* C6 as stated: _covers(prior, current) is true exactly when the three subset
\* tests of the shadow detector and the merger are, and so analyze and
\* detect_shadowed_rules report the same set of shadowed rules.
C6_SamePredicate ==
    /\ \A b \in 1..Len(rules) : \A a \in 1..(b - 1) :
          Covers(rules[a], rules[b]) <=> SubsetCover(rules[a], rules[b])
    /\ (Analyzed /\ ShadowDetected) => AnalyzeShadowed = DetectorShadowed

----------------------------------------------------------------------------
\* PolicyMigrationService.  Object names, context names and rule fields are
\* strings as sequences of characters, because the resolver cuts prefixes
\* off them, appends to them and rewrites them character by character.

LowerLetters ==
    <<"a", "b", "c", "d", "e", "f", "g", "h", "i", "j", "k", "l", "m",
      "n", "o", "p", "q", "r", "s", "t", "u", "v", "w", "x", "y", "z">>

UpperLetters ==
    <<"A", "B", "C", "D", "E", "F", "G", "H", "I", "J", "K", "L", "M",
      "N", "O", "P", "Q", "R", "S", "T", "U", "V", "W", "X", "Y", "Z">>

Digits == <<"0", "1", "2", "3", "4", "5", "6", "7", "8", "9">>

Range(f) == {f[i] : i \in DOMAIN f}

\* [a-zA-Z0-9]
IsAlnum(ch) == ch \in Range(LowerLetters) \cup Range(UpperLetters) \cup Range(Digits)

UpperChar(ch) ==
    IF ch \in Range(LowerLetters)
    THEN UpperLetters[CHOOSE i \in DOMAIN LowerLetters : LowerLetters[i] = ch]
    ELSE ch

\* str.upper
Upper(str) == [i \in 1..Len(str) |-> UpperChar(str[i])]

\* re.sub(r'[^a-zA-Z0-9]', '', context).upper()
CleanContext(context) == Upper(SelectSeq(context, IsAlnum))

\* str.startswith
StartsWith(str, prefix) ==
    Len(str) >= Len(prefix) /\ SubSeq(str, 1, Len(prefix)) = prefix

ObjectGroupPrefix == <<"o", "b", "j", "e", "c", "t", "-", "g", "r", "o", "u", "p", " ">>

ObjectPrefix == <<"o", "b", "j", "e", "c", "t", " ">>

\* object_map: the object names in order of first appearance, and the
\* instances of a name in context order.
RECURSIVE ObjectInstances(_)
ObjectInstances(ctxs) ==
    IF ctxs = <<>> THEN <<>>
    ELSE [k \in 1..Len(Head(ctxs).objects) |->
             [name |-> Head(ctxs).objects[k].name,
              value |-> Head(ctxs).objects[k].value,
              type |-> Head(ctxs).objects[k].type,
              context |-> Head(ctxs).name]]
         \o ObjectInstances(Tail(ctxs))

RECURSIVE MapKeys(_, _)
MapKeys(keys, insts) ==
    IF insts = <<>> THEN keys
    ELSE IF Head(insts).name \in Range(keys) THEN MapKeys(keys, Tail(insts))
    ELSE MapKeys(Append(keys, Head(insts).name), Tail(insts))

InstancesOf(ctxs, name) ==
    LET IsNamed(inst) == inst.name = name
    IN  SelectSeq(ObjectInstances(ctxs), IsNamed)

AllSame(instances) ==
    \A k \in 1..Len(instances) : instances[k].value = instances[1].value

\* analyze_conflicts: the loop over object_map.
RECURSIVE ConflictLoop(_, _, _)
ConflictLoop(report, ctxs, keys) ==
    IF keys = <<>> THEN report
    ELSE LET instances == InstancesOf(ctxs, Head(keys))
             clean == [name |-> instances[1].name, status |-> "clean",
                       context |-> instances[1].context,
                       value |-> instances[1].value]
         IN  IF Len(instances) = 1 \/ AllSame(instances)
             THEN ConflictLoop([report EXCEPT !.clean_objects = Append(@, clean)],
                               ctxs, Tail(keys))
             ELSE ConflictLoop(
                      [report EXCEPT !.conflicts =
                          Append(@, [name |-> Head(keys),
                                     instances |->
                                         [k \in 1..Len(instances) |->
                                             [context |-> instances[k].context,
                                              value |-> instances[k].value]]])],
                      ctxs, Tail(keys))

analyze_conflicts(ctxs) ==
    ConflictLoop([conflicts |-> <<>>, clean_objects |-> <<>>], ctxs,
                 MapKeys(<<>>, ObjectInstances(ctxs)))

\* generate_unified_policy, first pass.  The state of the pass is rename_map,
\* a function on <<name, context>> pairs, and final_objects.
NewName(inst) == inst.name \o <<"_">> \o CleanContext(inst.context)

MapSet(map, key, val) ==
    [k \in DOMAIN map \cup {key} |-> IF k = key THEN val ELSE map[k]]

RECURSIVE KeepNames(_, _)
KeepNames(map, instances) ==
    IF instances = <<>> THEN map
    ELSE KeepNames(MapSet(map, <<Head(instances).name, Head(instances).context>>,
                          Head(instances).name),
                   Tail(instances))

HasObject(objects, name) == \E k \in 1..Len(objects) : objects[k].name = name

RECURSIVE RenameInstances(_, _, _)
RenameInstances(pass, instances, strategy) ==
    IF instances = <<>> THEN pass
    ELSE IF strategy = "auto_rename_context"
    THEN RenameInstances(
             [rename_map |-> MapSet(pass.rename_map,
                                    <<Head(instances).name, Head(instances).context>>,
                                    NewName(Head(instances))),
              final_objects |-> Append(pass.final_objects,
                                       [name |-> NewName(Head(instances)),
                                        value |-> Head(instances).value,
                                        type |-> Head(instances).type])],
             Tail(instances), strategy)
    ELSE RenameInstances(pass, Tail(instances), strategy)

ResolveName(pass, instances, strategy) ==
    IF Len(instances) = 1 \/ AllSame(instances)
    THEN [rename_map |-> KeepNames(pass.rename_map, instances),
          final_objects |->
              IF ~HasObject(pass.final_objects, instances[1].name)
              THEN Append(pass.final_objects,
                          [name |-> instances[1].name,
                           value |-> instances[1].value,
                           type |-> instances[1].type])
              ELSE pass.final_objects]
    ELSE RenameInstances(pass, instances, strategy)

RECURSIVE ResolveLoop(_, _, _, _)
ResolveLoop(pass, ctxs, keys, strategy) ==
    IF keys = <<>> THEN pass
    ELSE ResolveLoop(ResolveName(pass, InstancesOf(ctxs, Head(keys)), strategy),
                     ctxs, Tail(keys), strategy)

FirstPass(ctxs, strategy) ==
    ResolveLoop([rename_map |-> <<>>, final_objects |-> <<>>], ctxs,
                MapKeys(<<>>, ObjectInstances(ctxs)), strategy)

\* generate_unified_policy, second pass.
RefPrefix(ref_name) ==
    IF StartsWith(ref_name, ObjectGroupPrefix) THEN ObjectGroupPrefix
    ELSE IF StartsWith(ref_name, ObjectPrefix) THEN ObjectPrefix
    ELSE <<>>

BareName(ref_name) == SubSeq(ref_name, Len(RefPrefix(ref_name)) + 1, Len(ref_name))

\* Variant: the renamed name returned without its prefix.
resolve_ref_bare(rename_map, ref_name, ctx) ==
    LET bare_name == BareName(ref_name)
        key == <<bare_name, ctx>>
        resolved == IF key \in DOMAIN rename_map THEN rename_map[key] ELSE bare_name
    IN  IF resolved # bare_name THEN resolved ELSE ref_name

resolve_ref(rename_map, ref_name, ctx) ==
    LET bare_name == BareName(ref_name)
        key == <<bare_name, ctx>>
        resolved == IF key \in DOMAIN rename_map THEN rename_map[key] ELSE bare_name
    IN  IF resolved # bare_name THEN RefPrefix(ref_name) \o resolved ELSE ref_name

MigrateChild(rename_map, child, ctx) ==
    [name |-> child.name,
     source |-> resolve_ref(rename_map, child.source, ctx),
     destination |-> resolve_ref(rename_map, child.destination, ctx),
     service |-> resolve_ref(rename_map, child.service, ctx),
     action |-> child.action]

MigrateRule(rename_map, rule, ctx) ==
    [name |-> rule.name,
     source |-> resolve_ref(rename_map, rule.source, ctx),
     destination |-> resolve_ref(rename_map, rule.destination, ctx),
     service |-> resolve_ref(rename_map, rule.service, ctx),
     action |-> rule.action,
     original_context |-> ctx,
     children |-> [k \in 1..Len(rule.children) |->
                      MigrateChild(rename_map, rule.children[k], ctx)]]

RECURSIVE SecondPass(_, _)
SecondPass(rename_map, ctxs) ==
    IF ctxs = <<>> THEN <<>>
    ELSE [k \in 1..Len(Head(ctxs).rules) |->
             MigrateRule(rename_map, Head(ctxs).rules[k], Head(ctxs).name)]
         \o SecondPass(rename_map, Tail(ctxs))

\* The third pass rewrites the member lists of groups with the lines they
\* had; the objects here carry plain values, which it leaves alone.
generate_unified_policy(ctxs, strategy) ==
    LET pass == FirstPass(ctxs, strategy)
    IN  [objects |-> pass.final_objects,
         rules |-> SecondPass(pass.rename_map, ctxs)]

----------------------------------------------------------------------------
\* The migration requests.

NameW == <<"W">>

NameWC1 == <<"W", "_", "C", "1">>

\* Two context names that clean to C1 and one that cleans to C2.
ContextNames == <<<<"c", "-", "1">>, <<"c", "_", "1">>, <<"c", "2">>>>

StrAny == <<"a", "n", "y">>

StrIp == <<"i", "p">>

StrHost == <<"1", "0", ".", "0", ".", "0", ".", "1">>

Object(name, value) == [name |-> name, value |-> value, type |-> "network"]

\* The object lists of a context: names unique within the context.
ObjectLists ==
    {<<>>}
    \cup {<<Object(n, v)>> : n \in {NameW, NameWC1}, v \in {"a", "b"}}
    \cup {<<Object(NameW, v), Object(NameWC1, w)>> : v \in {"a", "b"}, w \in {"a", "b"}}
    \cup {<<Object(NameWC1, w), Object(NameW, v)>> : v \in {"a", "b"}, w \in {"a", "b"}}

RefFields ==
    {StrAny, StrHost, NameW, ObjectPrefix \o NameW, ObjectGroupPrefix \o NameW,
     ObjectPrefix \o NameWC1}

MigRule(source, destination, service, children) ==
    [name |-> "ACL", source |-> source, destination |-> destination,
     service |-> service, action |-> "permit", children |-> children]

\* The rule every context of a request carries: a reference in the source,
\* in the destination of a rule and of its child, or in the service.
ContextRules ==
    {<<>>}
    \cup {<<MigRule(f, StrAny, StrIp, <<>>)>> : f \in RefFields}
    \cup {<<MigRule(StrAny, f, StrIp,
                    <<[name |-> "ACL", source |-> StrAny, destination |-> f,
                       service |-> StrIp, action |-> "permit"]>>)>>
             : f \in {NameW, ObjectGroupPrefix \o NameW}}
    \cup {<<MigRule(StrAny, StrAny, ObjectPrefix \o NameW, <<>>)>>}

\* The lists of 1..MaxContexts context names, in the order of ContextNames.
ContextNameLists ==
    {l \in SeqsUpTo(Range(ContextNames), MaxContexts) :
        /\ Len(l) >= 1
        /\ \A i, j \in 1..Len(l) :
              i < j => \E x, y \in 1..Len(ContextNames) :
                          x < y /\ ContextNames[x] = l[i] /\ ContextNames[y] = l[j]}

Requests ==
    UNION {
        {[k \in 1..Len(names) |->
             [name |-> names[k], objects |-> objs[k], rules |-> rs]]
           : objs \in [1..Len(names) -> ObjectLists], rs \in ContextRules}
      : names \in ContextNameLists}

InitMigration ==
    /\ AnalysisIdle
    /\ TrafficIdle
    /\ LaterIdle
    /\ contexts_data \in Requests
    /\ resolution_strategy \in {"auto_rename_context", "manual"}
    /\ conflict_report = NoReport
    /\ unified = NoUnified
    /\ migrated = {}

AnalyzeConflicts ==
    /\ "conflicts" \notin migrated
    /\ conflict_report' = analyze_conflicts(contexts_data)
    /\ migrated' = migrated \cup {"conflicts"}
    /\ UNCHANGED <<contexts_data, resolution_strategy, unified, analysisVars,
                   trafficVars, laterVars>>

GenerateUnifiedPolicy ==
    /\ "unified" \notin migrated
    /\ unified' = generate_unified_policy(contexts_data, resolution_strategy)
    /\ migrated' = migrated \cup {"unified"}
    /\ UNCHANGED <<contexts_data, resolution_strategy, conflict_report,
                   analysisVars, trafficVars, laterVars>>

NextMigration == AnalyzeConflicts \/ GenerateUnifiedPolicy

SpecMigration == InitMigration /\ [][NextMigration]_vars

----------------------------------------------------------------------------
\* Properties of the migration resolver.

Unified == "unified" \in migrated

Contexts == 1..Len(contexts_data)

Defines(c, n) ==
    \E k \in 1..Len(contexts_data[c].objects) : contexts_data[c].objects[k].name = n

ValueIn(c, n) ==
    LET k == CHOOSE x \in 1..Len(contexts_data[c].objects) :
                 contexts_data[c].objects[x].name = n
    IN  contexts_data[c].objects[k].value

DefinedNames == {n \in {NameW, NameWC1} : \E c \in Contexts : Defines(c, n)}

DefiningContexts(n) == {c \in Contexts : Defines(c, n)}

\* The name has instances of different values.
Conflicting(n) ==
    \E c, d \in DefiningContexts(n) : ValueIn(c, n) # ValueIn(d, n)

OutputObjects(n) ==
    {k \in 1..Len(unified.objects) : unified.objects[k].name = n}

\* The rules of the request with their context, in output order.
RECURSIVE RequestRules(_)
RequestRules(ctxs) ==
    IF ctxs = <<>> THEN <<>>
    ELSE [k \in 1..Len(Head(ctxs).rules) |->
             [context |-> Head(ctxs).name, rule |-> Head(ctxs).rules[k]]]
         \o RequestRules(Tail(ctxs))

ContextOf(name) == CHOOSE c \in Contexts : contexts_data[c].name = name

\* The reference fields of a rule and of its children, in one order for the
\* rule of the request and for the rule of the unified policy.
RECURSIVE ChildFields(_)
ChildFields(children) ==
    IF children = <<>> THEN <<>>
    ELSE <<Head(children).source, Head(children).destination,
           Head(children).service>> \o ChildFields(Tail(children))

Fields(rule) ==
    <<rule.source, rule.destination, rule.service>> \o ChildFields(rule.children)

\* C7 as stated: a name defined in one context only stays in the output
\* under that name, and a name defined in several contexts with identical
\* values yields exactly one output object of that name.
C7_CleanNamesKept ==
    Unified =>
        \A n \in DefinedNames :
            /\ Cardinality(DefiningContexts(n)) = 1 => OutputObjects(n) # {}
            /\ (Cardinality(DefiningContexts(n)) > 1 /\ ~Conflicting(n)) =>
                   Cardinality(OutputObjects(n)) = 1

RenamedName(n, c) == n \o <<"_">> \o CleanContext(contexts_data[c].name)

\* C8 as stated: under auto_rename_context a name N with different values in
\* several contexts yields an object N_<context> per defining context, no
\* object named N remains, and each 'object N' / 'object-group N' field of a
\* defining context reads 'object N_<context>' / 'object-group N_<context>'.
C8_ConflictsRenamed ==
    (Unified /\ resolution_strategy = "auto_rename_context") =>
        \A n \in DefinedNames :
            Conflicting(n) =>
                /\ \A c \in DefiningContexts(n) :
                      \E k \in OutputObjects(RenamedName(n, c)) :
                          unified.objects[k].value = ValueIn(c, n)
                /\ OutputObjects(n) = {}
                /\ \A r \in 1..Len(unified.rules) :
                      LET in == RequestRules(contexts_data)[r]
                          c == ContextOf(in.context)
                      IN  Defines(c, n) =>
                            \A f \in 1..Len(Fields(in.rule)) :
                                \A prefix \in {ObjectPrefix, ObjectGroupPrefix} :
                                    Fields(in.rule)[f] = prefix \o n =>
                                        Fields(unified.rules[r])[f]
                                            = prefix \o RenamedName(n, c)

HasPrefix(field) == RefPrefix(field) # <<>>

\* C9 as stated: a field that references a non-conflicting object, or that
\* has no 'object ' / 'object-group ' prefix, is the same in the output.
C9_OtherFieldsUntouched ==
    Unified =>
        \A r \in 1..Len(unified.rules) :
            LET in == RequestRules(contexts_data)[r] IN
            \A f \in 1..Len(Fields(in.rule)) :
                (\/ ~HasPrefix(Fields(in.rule)[f])
                 \/ BareName(Fields(in.rule)[f]) \notin DefinedNames
                 \/ ~Conflicting(BareName(Fields(in.rule)[f])))
                => Fields(unified.rules[r])[f] = Fields(in.rule)[f]

\* The field is renamed: its name, after an 'object ' / 'object-group '
\* prefix if it has one, is a conflicting object of the rule's context.
IsRenamed(c, field) ==
    /\ resolution_strategy = "auto_rename_context"
    /\ BareName(field) \in DefinedNames
    /\ Defines(c, BareName(field))
    /\ Conflicting(BareName(field))

\* C9 amended: a field is the same in the output unless its name, after the
\* 'object ' / 'object-group ' prefix if it has one, is an object of the
\* rule's context that is in conflict; such a field, prefixed or bare, reads
\* prefix + name + '_' + context.  References to non-conflicting objects, IP
\* literals and 'any' are unchanged; a bare token naming a conflicting object
\* is renamed.
C9_FieldsByConflict ==
    Unified =>
        /\ Len(unified.rules) = Len(RequestRules(contexts_data))
        /\ \A r \in 1..Len(unified.rules) :
              LET in == RequestRules(contexts_data)[r]
                  c == ContextOf(in.context)
              IN  /\ Len(Fields(unified.rules[r])) = Len(Fields(in.rule))
                  /\ \A f \in 1..Len(Fields(in.rule)) :
                        Fields(unified.rules[r])[f] =
                            IF IsRenamed(c, Fields(in.rule)[f])
                            THEN RefPrefix(Fields(in.rule)[f])
                                 \o RenamedName(BareName(Fields(in.rule)[f]), c)
                            ELSE Fields(in.rule)[f]

\* A policy has been unified in which a prefixed reference to a conflicting
\* object was renamed with its prefix kept, in a rule and in its child.
C9_Witness ==
    /\ Unified
    /\ \E r \in 1..Len(unified.rules) :
          LET in == RequestRules(contexts_data)[r] IN
          /\ in.rule.destination = ObjectGroupPrefix \o NameW
          /\ unified.rules[r].destination
                 = ObjectGroupPrefix \o NameW \o <<"_", "C", "1">>
          /\ Len(unified.rules[r].children) = 1
          /\ unified.rules[r].children[1].destination
                 = unified.rules[r].destination
          /\ unified.rules[r].source = StrAny

----------------------------------------------------------------------------
\* TrafficAnalyzerService: the strings of the rules and of the flow records.

\* 'host' in net_str.lower()
ContainsHost(s) == lower(s) \in {"host 10.0.1.7", "host WEB"}

\* net_str.split()
Split(s) ==
    CASE s = "host 10.0.1.7" -> <<"host", "10.0.1.7">>
      [] s = "host WEB" -> <<"host", "WEB">>
      [] OTHER -> <<s>>

\* svc_str.split('/')
SplitSlash(s) ==
    CASE s = "tcp/80" -> <<"tcp", "80">>
      [] s = "udp/53" -> <<"udp", "53">>
      [] OTHER -> <<s>>

\* port.isdigit()
IsDigit(s) ==
    s \in {"0", "53", "80", "177", "443", "1024", "1025", "12640", "53257",
           "660243732"}

\* int(port)
ToInt(s) ==
    CASE s = "53" -> 53
      [] s = "80" -> 80
      [] s = "177" -> 177
      [] s = "443" -> 443
      [] s = "1024" -> 1024
      [] s = "1025" -> 1025
      [] s = "12640" -> 12640
      [] s = "53257" -> 53257
      [] s = "660243732" -> 660243732
      [] OTHER -> 0

\* _parse_network raises: 'host X' with an X that is no address.
ParseNetworkRaises(net_str) ==
    /\ net_str # ""
    /\ lower(net_str) \notin {"any", "any4"}
    /\ ContainsHost(net_str)
    /\ Len(Split(net_str)) >= 2
    /\ ~ip_network_host(Split(net_str)[2]).ok

\* _parse_network: the network, or NoNet for the None of a failed parse.
parse_network(net_str) ==
    IF net_str = "" \/ lower(net_str) = "any" \/ lower(net_str) = "any4"
    THEN Net(0, 0)
    ELSE IF ContainsHost(net_str) /\ Len(Split(net_str)) >= 2
    THEN ip_network_host(Split(net_str)[2])
    ELSE IF HasSlash(net_str) THEN ip_network(net_str)
    ELSE ip_network_host(net_str)

\* _parse_service
parse_service(svc_str) ==
    IF svc_str = "" \/ lower(svc_str) = "ip" THEN <<"any", 0>>
    ELSE IF HasSlash(svc_str)
    THEN LET proto == SplitSlash(svc_str)[1]
             port == SplitSlash(svc_str)[2]
         IN  <<lower(proto), IF IsDigit(port) THEN ToInt(port) ELSE 0>>
    ELSE <<lower(svc_str), 0>>

\* analyze_logs, step 1: a rule that fails to parse is left out.
ProcessedRule(rule) ==
    [id |-> rule.id, name |-> rule.name, action |-> rule.action,
     src |-> parse_network(rule.source),
     dst |-> parse_network(rule.destination),
     svc |-> parse_service(rule.service),
     src_str |-> rule.source, dst_str |-> rule.destination,
     svc_str |-> rule.service]

RECURSIVE ProcessRules(_)
ProcessRules(rs) ==
    IF rs = <<>> THEN <<>>
    ELSE IF ParseNetworkRaises(Head(rs).source)
            \/ ParseNetworkRaises(Head(rs).destination)
         THEN ProcessRules(Tail(rs))
         ELSE <<ProcessedRule(Head(rs))>> \o ProcessRules(Tail(rs))

\* Variant: the containers start from the counters of the earlier replay.
NewRuleStatsCarried(processed) ==
    [id \in {processed[k].id : k \in 1..Len(processed)} |->
        LET r == processed[CHOOSE k \in 1..Len(processed) : processed[k].id = id]
        IN  [name |-> r.name,
             hits |-> IF first_run = <<>> THEN 0 ELSE first_run[1].rule_stats[id].hits,
             bytes |-> 0, last_seen |-> "None",
             source |-> r.src_str, destination |-> r.dst_str,
             service |-> r.svc_str, action |-> r.action,
             distinct_services |-> {}, distinct_sources |-> {}]]

\* analyze_logs, step 2: the stats containers.
NewRuleStats(processed) ==
    [id \in {processed[k].id : k \in 1..Len(processed)} |->
        LET r == processed[CHOOSE k \in 1..Len(processed) : processed[k].id = id]
        IN  [name |-> r.name, hits |-> 0, bytes |-> 0, last_seen |-> "None",
             source |-> r.src_str, destination |-> r.dst_str,
             service |-> r.svc_str, action |-> r.action,
             distinct_services |-> {}, distinct_sources |-> {}]]

\* ipaddress.ip_address(text): the address, or NoNet when the text is none.
ip_address(s) == ip_network_host(s)

\* address in network
InNetwork(addr, net) ==
    ShiftRight(addr.base, 32 - net.len) = ShiftRight(net.base, 32 - net.len)

NoRule == [id |-> 0]

\* _find_match: the loop over the rules, first match wins.
RECURSIVE FindLoop(_, _, _, _, _)
FindLoop(src_ip_obj, dst_ip_obj, log_proto, log_port, rs) ==
    IF rs = <<>> THEN NoRule
    ELSE LET rule == Head(rs)
             r_proto == rule.svc[1]
             r_port == rule.svc[2]
         IN  IF rule.src.ok /\ ~InNetwork(src_ip_obj, rule.src)
             THEN FindLoop(src_ip_obj, dst_ip_obj, log_proto, log_port, Tail(rs))
             ELSE IF rule.dst.ok /\ ~InNetwork(dst_ip_obj, rule.dst)
             THEN FindLoop(src_ip_obj, dst_ip_obj, log_proto, log_port, Tail(rs))
             ELSE IF /\ r_proto # "any"
                     /\ r_proto # "ip"
                     /\ \/ r_proto # log_proto
                        \/ r_port # 0 /\ r_port # log_port
             THEN FindLoop(src_ip_obj, dst_ip_obj, log_proto, log_port, Tail(rs))
             ELSE rule

find_match(log, rs) ==
    LET src_ip_obj == ip_address(log.src_ip)
        dst_ip_obj == ip_address(log.dst_ip)
    IN  IF ~src_ip_obj.ok \/ ~dst_ip_obj.ok THEN NoRule
        ELSE FindLoop(src_ip_obj, dst_ip_obj, lower(log.proto),
                      IF IsDigit(log.dst_port) THEN ToInt(log.dst_port) ELSE 0,
                      rs)

\* Variant: a hit counted twice.
update_stats_twice(st, rule_id, log) ==
    IF rule_id \in DOMAIN st
    THEN [st EXCEPT ![rule_id] =
            [@ EXCEPT !.hits = @ + 2,
                      !.bytes = @ + log.bytes,
                      !.last_seen = log.timestamp,
                      !.distinct_services = @ \cup {<<log.proto, log.dst_port>>},
                      !.distinct_sources = @ \cup {log.src_ip}]]
    ELSE st

\* _update_stats
update_stats(st, rule_id, log) ==
    IF rule_id \in DOMAIN st
    THEN [st EXCEPT ![rule_id] =
            [@ EXCEPT !.hits = @ + 1,
                      !.bytes = @ + log.bytes,
                      !.last_seen = log.timestamp,
                      !.distinct_services = @ \cup {<<log.proto, log.dst_port>>},
                      !.distinct_sources = @ \cup {log.src_ip}]]
    ELSE st

----------------------------------------------------------------------------
\* The traffic requests: the rules in the order of the query and the flow
\* records of the log parser.

TrafficRule(source, destination, service, action) ==
    [id |-> 0, name |-> "R", source |-> source, destination |-> destination,
     service |-> service, action |-> action]

TrafficRules ==
    {TrafficRule("10.0.0.0/24", "any", "tcp/80", "permit"),
     TrafficRule("host 10.0.1.7", "any", "udp/53", "permit"),
     TrafficRule("WEB", "10.0.1.7/32", "tcp", "permit"),
     TrafficRule("host WEB", "any", "ip", "permit"),
     TrafficRule("any", "any", "ip", "deny"),
     TrafficRule("any", "any", "any", "permit")}

\* The rules of a device: the id of a rule is its place in the query result.
TrafficRuleLists ==
    {[k \in 1..Len(l) |-> [l[k] EXCEPT !.id = k]] :
        l \in SeqsUpTo(TrafficRules, MaxTrafficRules)}

Flow(timestamp, proto, src_ip, dst_ip, dst_port, bytes) ==
    [timestamp |-> timestamp, proto |-> proto, src_ip |-> src_ip,
     dst_ip |-> dst_ip, dst_port |-> dst_port, bytes |-> bytes]

Flows ==
    {Flow("12:09:08", "tcp", "10.0.0.5", "10.0.1.7", "80", 100),
     Flow("12:09:09", "udp", "10.0.1.7", "10.0.0.5", "53", 40),
     Flow("12:09:10", "tcp", "1.2.3", "10.0.1.7", "80", 100)}

Logs ==
    {[timestamp |-> f.timestamp, action |-> a, proto |-> f.proto,
      src_ip |-> f.src_ip, dst_ip |-> f.dst_ip, dst_port |-> f.dst_port,
      bytes |-> f.bytes] :
        a \in {"allow", "deny"}, f \in Flows}

InitTraffic ==
    /\ AnalysisIdle
    /\ MigrationIdle
    /\ LaterIdle
    /\ traffic_rules \in TrafficRuleLists
    /\ parsed_logs \in SeqsUpTo(Logs, MaxLogs)
    /\ processed_rules = <<>>
    /\ rule_stats = <<>>
    /\ unmatched_count = 0
    /\ denied_count = 0
    /\ total_logs = 0
    /\ log_index = 0
    /\ traffic_pc = "start"
    /\ first_run = <<>>

\* analyze_logs up to the loop: rules pre-parsed, containers set up.
StartAnalysis ==
    /\ traffic_pc = "start"
    /\ processed_rules' = ProcessRules(traffic_rules)
    /\ rule_stats' = NewRuleStats(ProcessRules(traffic_rules))
    /\ unmatched_count' = 0
    /\ denied_count' = 0
    /\ total_logs' = Len(parsed_logs)
    /\ log_index' = 0
    /\ traffic_pc' = "loop"
    /\ UNCHANGED <<traffic_rules, parsed_logs, first_run, analysisVars,
                   migrationVars, laterVars>>

\* Variant: an allowed flow credited to the rule found whatever its action.
ProcessLogAnyAction ==
    /\ traffic_pc = "loop"
    /\ log_index < Len(parsed_logs)
    /\ LET log == parsed_logs[log_index + 1]
           matched_rule == find_match(log, processed_rules)
       IN  IF log.action = "deny"
           THEN /\ denied_count' = denied_count + 1
                /\ rule_stats' = IF matched_rule # NoRule
                                 THEN update_stats(rule_stats, matched_rule.id, log)
                                 ELSE rule_stats
                /\ UNCHANGED unmatched_count
           ELSE IF matched_rule # NoRule
                THEN /\ rule_stats' = update_stats(rule_stats, matched_rule.id, log)
                     /\ UNCHANGED <<unmatched_count, denied_count>>
                ELSE /\ unmatched_count' = unmatched_count + 1
                     /\ UNCHANGED <<rule_stats, denied_count>>
    /\ log_index' = log_index + 1
    /\ UNCHANGED <<traffic_rules, parsed_logs, processed_rules, total_logs,
                   traffic_pc, first_run, analysisVars, migrationVars, laterVars>>

\* One iteration of the loop over parsed_logs.
ProcessLog ==
    /\ traffic_pc = "loop"
    /\ log_index < Len(parsed_logs)
    /\ LET log == parsed_logs[log_index + 1]
           matched_rule == find_match(log, processed_rules)
       IN  IF log.action = "deny"
           THEN /\ denied_count' = denied_count + 1
                /\ rule_stats' = IF matched_rule # NoRule
                                 THEN update_stats(rule_stats, matched_rule.id, log)
                                 ELSE rule_stats
                /\ UNCHANGED unmatched_count
           ELSE IF log.action = "allow"
           THEN IF matched_rule # NoRule /\ matched_rule.action = "permit"
                THEN /\ rule_stats' = update_stats(rule_stats, matched_rule.id, log)
                     /\ UNCHANGED <<unmatched_count, denied_count>>
                ELSE /\ unmatched_count' = unmatched_count + 1
                     /\ UNCHANGED <<rule_stats, denied_count>>
           ELSE UNCHANGED <<rule_stats, unmatched_count, denied_count>>
    /\ log_index' = log_index + 1
    /\ UNCHANGED <<traffic_rules, parsed_logs, processed_rules, total_logs,
                   traffic_pc, first_run, analysisVars, migrationVars, laterVars>>

\* 'any' in text.lower(), for the texts of the rules.
HasAny(text) == lower(text) \in {"any", "any4"}

\* Variant: the tighten-scope test written for permit and deny rules alike.
RuleRecommendationsAnyAction(id, st) ==
    LET is_any_src == HasAny(st.source)
        is_any_dst == HasAny(st.destination)
        services == st.distinct_services
        sources == st.distinct_sources
    IN  (IF (is_any_src \/ is_any_dst) /\ st.action = "permit" /\ st.hits > 0
            /\ Cardinality(services) > 0 /\ Cardinality(services) <= 5
         THEN <<[type |-> "over_permissive", rule_id |-> id]>>
         ELSE <<>>)
        \o (IF is_any_src /\ Cardinality(sources) > 0 /\ Cardinality(sources) <= 10
            THEN <<[type |-> "tighten_scope", rule_id |-> id]>>
            ELSE <<>>)

\* _generate_recommendations, part A, for one rule: the over-permissive test
\* and, inside its outer condition, the tighten-scope test.
RuleRecommendations(id, st) ==
    LET is_any_src == HasAny(st.source)
        is_any_dst == HasAny(st.destination)
        services == st.distinct_services
        sources == st.distinct_sources
    IN  IF (is_any_src \/ is_any_dst) /\ st.action = "permit" /\ st.hits > 0
        THEN (IF Cardinality(services) > 0 /\ Cardinality(services) <= 5
              THEN <<[type |-> "over_permissive", rule_id |-> id]>>
              ELSE <<>>)
             \o (IF is_any_src /\ Cardinality(sources) > 0
                    /\ Cardinality(sources) <= 10
                 THEN <<[type |-> "tighten_scope", rule_id |-> id]>>
                 ELSE <<>>)
        ELSE <<>>

\* The loop over rule_stats.items(), in the order of the rules.  Parts B and
\* C need more than five equal denied flows or three sources of one /24 and
\* add nothing for the logs replayed here.
RECURSIVE generate_recommendations(_, _)
generate_recommendations(processed, st) ==
    IF processed = <<>> THEN <<>>
    ELSE RuleRecommendations(Head(processed).id, st[Head(processed).id])
            \o generate_recommendations(Tail(processed), st)

\* The loop has ended: the recommendations are derived and the result is
\* returned.
ReturnResult ==
    /\ traffic_pc = "loop"
    /\ log_index = Len(parsed_logs)
    /\ recommendations' = generate_recommendations(processed_rules, rule_stats)
    /\ traffic_pc' = "returned"
    /\ UNCHANGED <<traffic_rules, parsed_logs, processed_rules, rule_stats,
                   unmatched_count, denied_count, total_logs, log_index,
                   first_run>>
    /\ UNCHANGED returnOthers

NextTraffic == StartAnalysis \/ ProcessLog \/ ReturnResult

SpecTraffic == InitTraffic /\ [][NextTraffic]_vars

\* What analyze_logs returns.
Returned ==
    [total_logs |-> total_logs, denied_logs |-> denied_count,
     unmatched_logs |-> unmatched_count, rule_stats |-> rule_stats]

\* The same request is sent again: analyze_logs is called with the same
\* rules and flow records, on the same service object.
ReplayAgain ==
    /\ traffic_pc = "returned"
    /\ first_run = <<>>
    /\ first_run' = <<Returned>>
    /\ traffic_pc' = "start"
    /\ UNCHANGED <<traffic_rules, parsed_logs, processed_rules, rule_stats,
                   unmatched_count, denied_count, total_logs, log_index,
                   analysisVars, migrationVars, laterVars>>

NextReplay == NextTraffic \/ ReplayAgain

SpecReplay == InitTraffic /\ [][NextReplay]_vars

----------------------------------------------------------------------------
\* Properties of the traffic replay.

RuleIds == DOMAIN rule_stats

RECURSIVE SumHits(_, _)
SumHits(st, ids) ==
    IF ids = {} THEN 0
    ELSE LET id == CHOOSE x \in ids : TRUE
         IN  st[id].hits + SumHits(st, ids \ {id})

\* The counters of rule id after the step are those before it plus h hits
\* and b bytes.
Counted(id, h, b) ==
    /\ rule_stats'[id].hits = rule_stats[id].hits + h
    /\ rule_stats'[id].bytes = rule_stats[id].bytes + b

\* The step that processes one flow credits it to at most one rule.
OneRuleCredited ==
    log_index' = log_index + 1 =>
        /\ DOMAIN rule_stats' = RuleIds
        /\ \/ \A id \in RuleIds : Counted(id, 0, 0)
           \/ \E id \in RuleIds :
                 /\ Counted(id, 1, parsed_logs[log_index'].bytes)
                 /\ \A other \in RuleIds \ {id} : Counted(other, 0, 0)

HitsBounded ==
    traffic_pc \in {"loop", "returned"} =>
        /\ SumHits(rule_stats, RuleIds) <= log_index
        /\ log_index <= Len(parsed_logs)
        /\ total_logs = Len(parsed_logs)

\* C10: every flow record is attributed to at most one rule: the step that
\* processes a flow adds 1 to the hits and the flow's bytes to the bytes of
\* exactly one rule, or changes no rule's counters; so the sum of the hit
\* counters never exceeds the number of flows processed, and total_logs is
\* the number of flows.
C10_OneRulePerFlow == []HitsBounded /\ [][OneRuleCredited]_vars

\* analyze_logs has returned for two flows, one credited to a rule with its
\* bytes and one credited to no rule.
C10_Witness ==
    /\ traffic_pc = "returned"
    /\ total_logs = 2
    /\ SumHits(rule_stats, RuleIds) = 1
    /\ unmatched_count = 1
    /\ \E id \in RuleIds : rule_stats[id].hits = 1 /\ rule_stats[id].bytes = 100

\* The match of the replay as the specification words it: the source network
\* of the rule contains the source address of the flow, its destination
\* network the destination address, and its service matches (protocol equal
\* or wildcard, and port 0 or equal to the destination port of the flow).
SpecMatch(rule, log) ==
    LET src == parse_network(rule.source)
        dst == parse_network(rule.destination)
        svc == parse_service(rule.service)
        src_ip == ip_address(log.src_ip)
        dst_ip == ip_address(log.dst_ip)
        port == IF IsDigit(log.dst_port) THEN ToInt(log.dst_port) ELSE 0
    IN  /\ ~ParseNetworkRaises(rule.source)
        /\ ~ParseNetworkRaises(rule.destination)
        /\ src.ok /\ dst.ok /\ src_ip.ok /\ dst_ip.ok
        /\ InNetwork(src_ip, src)
        /\ InNetwork(dst_ip, dst)
        /\ svc[1] \in {"any", "ip", lower(log.proto)}
        /\ svc[2] \in {0, port}

\* The id of the first rule of rs, in list order, that matches log in the
\* sense of SpecMatch; 0 when none does.
FirstSpecMatch(log, rs) ==
    IF \E k \in 1..Len(rs) : SpecMatch(rs[k], log)
    THEN rs[CHOOSE k \in 1..Len(rs) :
                /\ SpecMatch(rs[k], log)
                /\ \A j \in 1..(k - 1) : ~SpecMatch(rs[j], log)].id
    ELSE 0

Replaying == traffic_pc \in {"loop", "returned"}

\* C11 as stated: the rule _find_match returns for a flow is the first rule,
\* in ascending sequence order, whose source network contains the source
\* address of the flow, whose destination network contains its destination
\* address and whose service matches; none when no rule matches.
C11_FirstMatchWins ==
    Replaying =>
        \A k \in 1..Len(parsed_logs) :
            find_match(parsed_logs[k], processed_rules).id
                = FirstSpecMatch(parsed_logs[k], traffic_rules)

\* C12: a second replay of the same flow records against the same ordered
\* rules returns the same per-rule statistics (hits, bytes, last_seen, the
\* distinct sources and services) and the same unmatched and denied counts
\* as the first.
C12_ReplayDeterministic ==
    (traffic_pc = "returned" /\ first_run # <<>>) => Returned = first_run[1]

\* The second replay of two flows has returned: one flow was credited to a
\* rule, with its address and time, and one was denied.
C12_Witness ==
    /\ traffic_pc = "returned"
    /\ first_run # <<>>
    /\ total_logs = 2
    /\ denied_count = 1
    /\ \E id \in RuleIds :
          /\ rule_stats[id].hits = 1
          /\ rule_stats[id].last_seen = "12:09:08"
          /\ rule_stats[id].distinct_sources = {"10.0.0.5"}

----------------------------------------------------------------------------
\* LogParserService.  A log line is the sequence of its whitespace-separated
\* items: words, and endpoints with the parts the patterns capture.

Token(form, text, intf, ip, port) ==
    [form |-> form, text |-> text, intf |-> intf, ip |-> ip, port |-> port]

\* a word or a number
Word(text) == Token("word", text, "", "", "")

\* intf:ip/port, or intf:ip when port is ""
Endpoint(intf, ip, port) == Token("colon", "", intf, ip, port)

\* (ip/port), the mapped address after an endpoint
Mapped(ip, port) == Token("mapped", "", "", ip, port)

\* intf/ip(port), the endpoint of an access-list permitted message
PermitEndpoint(intf, ip, port) == Token("slash", "", intf, ip, port)

\* the date and time a line starts with
Stamp(text) == Token("stamp", text, "", "", "")

NoToken == Token("none", "", "", "", "")

At(line, i) == IF i \in 1..Len(line) THEN line[i] ELSE NoToken

\* \w+
IsWordText(t) ==
    /\ t.form = "word"
    /\ t.text \in {"Built", "Teardown", "inbound", "outbound", "TCP", "UDP",
                   "tcp", "icmp", "ICMP", "connection", "for", "to", "src",
                   "dst", "Deny", "duration", "bytes", "permitted",
                   "660243732", "6302013", "12640", "177"}

\* \d+
IsNumberText(t) ==
    t.form = "word" /\ t.text \in {"660243732", "6302013", "12640", "177"}

\* \d+:\d+:\d+
IsDurationText(t) == t.form = "word" /\ t.text \in {"0:02:01", "0:00:00"}

\* "<id>" in line: the message ids a line carries, in its %ASA tag or inside
\* a longer number.
IdsIn(t) ==
    CASE t.form = "word" /\ t.text = "%ASA-6-302013:" -> {"302013"}
      [] t.form = "word" /\ t.text = "%ASA-6-302014:" -> {"302014"}
      [] t.form = "word" /\ t.text = "%ASA-6-302015:" -> {"302015"}
      [] t.form = "word" /\ t.text = "%ASA-6-302016:" -> {"302016"}
      [] t.form = "word" /\ t.text = "%ASA-4-106023:" -> {"106023"}
      [] t.form = "word" /\ t.text = "%ASA-6-106100:" -> {"106100"}
      [] t.form = "word" /\ t.text = "6302013" -> {"302013"}
      [] OTHER -> {}

Contains(line, id) == \E i \in 1..Len(line) : id \in IdsIn(line[i])

\* TIMESTAMP_REGEX.match: the stamp a line starts with, else the time of
\* the call.
Timestamp(line) == IF At(line, 1).form = "stamp" THEN At(line, 1).text ELSE "now"

\* ([\w-]+):([\d.]+)/(\d+)
IsConnEndpoint(t) == t.form = "colon" /\ t.port # ""

\* The items CONN_REGEX matches from item i on, or <<>> when it does not
\* match there: the direction, the protocol, the two endpoints, the duration
\* and the bytes ("" for a group that took no part in the match).
ConnAt(line, i) ==
    LET dir == IF At(line, i + 1).text \in {"inbound", "outbound"}
                  /\ At(line, i + 1).form = "word"
                  /\ IsWordText(At(line, i + 2))
                  /\ At(line, i + 3).text = "connection"
               THEN At(line, i + 1).text ELSE ""
        k == IF dir = "" THEN i + 1 ELSE i + 2
        first == k + 4
        tos == {j \in (first + 1)..Len(line) :
                   /\ At(line, j).form = "word" /\ At(line, j).text = "to"
                   /\ IsConnEndpoint(At(line, j + 1))}
        to == CHOOSE j \in tos : \A x \in tos : x <= j
        d == IF At(line, to + 2).form = "mapped" THEN to + 3 ELSE to + 2
        timed == /\ At(line, d).form = "word" /\ At(line, d).text = "duration"
                 /\ IsDurationText(At(line, d + 1))
                 /\ At(line, d + 2).form = "word" /\ At(line, d + 2).text = "bytes"
                 /\ IsNumberText(At(line, d + 3))
    IN  IF /\ At(line, i).form = "word"
           /\ At(line, i).text \in {"Built", "Teardown"}
           /\ IsWordText(At(line, k))
           /\ At(line, k + 1).form = "word" /\ At(line, k + 1).text = "connection"
           /\ IsNumberText(At(line, k + 2))
           /\ At(line, k + 3).form = "word" /\ At(line, k + 3).text = "for"
           /\ IsConnEndpoint(At(line, first))
           /\ tos # {}
        THEN <<[direction |-> dir, proto |-> At(line, k).text,
                first |-> At(line, first), second |-> At(line, to + 1),
                duration |-> IF timed THEN At(line, d + 1).text ELSE "",
                bytes |-> IF timed THEN At(line, d + 3).text ELSE ""]>>
        ELSE <<>>

\* regex.search: the leftmost match.
Search(MatchAt(_, _), line) ==
    IF \E i \in 1..Len(line) : MatchAt(line, i) # <<>>
    THEN MatchAt(line, CHOOSE i \in 1..Len(line) :
                          /\ MatchAt(line, i) # <<>>
                          /\ \A j \in 1..(i - 1) : MatchAt(line, j) = <<>>)
    ELSE <<>>

\* DENY_REGEX from item i on.
DenyAt(line, i) ==
    IF /\ At(line, i).form = "word" /\ At(line, i).text = "Deny"
       /\ IsWordText(At(line, i + 1))
       /\ At(line, i + 2).form = "word" /\ At(line, i + 2).text = "src"
       /\ At(line, i + 3).form = "colon" /\ At(line, i + 3).port = ""
       /\ At(line, i + 4).form = "word" /\ At(line, i + 4).text = "dst"
       /\ At(line, i + 5).form = "colon"
    THEN <<[proto |-> At(line, i + 1).text, first |-> At(line, i + 3),
            second |-> At(line, i + 5)]>>
    ELSE <<>>

\* PERMIT_REGEX from item i on.
PermitAt(line, i) ==
    IF /\ At(line, i).form = "word" /\ At(line, i).text = "access-list"
       /\ At(line, i + 1).form = "word" /\ At(line, i + 1).text = "OUTSIDE-IN"
       /\ At(line, i + 2).form = "word" /\ At(line, i + 2).text = "permitted"
       /\ IsWordText(At(line, i + 3))
       /\ At(line, i + 4).form = "slash"
       /\ At(line, i + 5).form = "word" /\ At(line, i + 5).text = "->"
       /\ At(line, i + 6).form = "slash"
    THEN <<[proto |-> At(line, i + 3).text, first |-> At(line, i + 4),
            second |-> At(line, i + 6)]>>
    ELSE <<>>

NoFlow == [action |-> "None"]

\* Variant: the endpoints of a line kept in log order whatever the ports,
\* and the bytes left out.
ConnFlowInOrder(timestamp, m) ==
    LET swapped == lower(m.direction) = "outbound"
        src == IF swapped THEN m.second ELSE m.first
        dst == IF swapped THEN m.first ELSE m.second
    IN  [timestamp |-> timestamp, syslog_id |-> "3020xx", action |-> "allow",
         proto |-> lower(m.proto),
         src_ip |-> src.ip, src_port |-> src.port, src_intf |-> src.intf,
         dst_ip |-> dst.ip, dst_port |-> dst.port, dst_intf |-> dst.intf,
         direction |-> IF m.direction # "" THEN m.direction ELSE "unknown",
         bytes |-> 0,
         duration |-> IF m.duration # "" THEN m.duration ELSE "None"]

\* Variant: a port of 1024 counted as a client port.
ConnFlowFrom1024(timestamp, m) ==
    LET p1 == IF IsDigit(m.first.port) THEN ToInt(m.first.port) ELSE 0
        p2 == IF IsDigit(m.second.port) THEN ToInt(m.second.port) ELSE 0
        swapped == \/ lower(m.direction) = "outbound"
                   \/ /\ m.direction = ""
                      /\ p2 >= 1024 /\ p1 < 1024
        direction ==
            IF m.direction # "" /\ lower(m.direction) \in {"outbound", "inbound"}
            THEN m.direction
            ELSE IF p2 >= 1024 /\ p1 < 1024 THEN "outbound (inferred)"
            ELSE IF p1 >= 1024 /\ p2 < 1024 THEN "inbound (inferred)"
            ELSE "unknown"
        src == IF swapped THEN m.second ELSE m.first
        dst == IF swapped THEN m.first ELSE m.second
    IN  [timestamp |-> timestamp, syslog_id |-> "3020xx", action |-> "allow",
         proto |-> lower(m.proto),
         src_ip |-> src.ip, src_port |-> src.port, src_intf |-> src.intf,
         dst_ip |-> dst.ip, dst_port |-> dst.port, dst_intf |-> dst.intf,
         direction |-> direction,
         bytes |-> IF m.bytes # "" THEN ToInt(m.bytes) ELSE 0,
         duration |-> IF m.duration # "" THEN m.duration ELSE "None"]

\* parse_line, the connection branch: source and destination by the
\* direction of the line, else by the ports.
ConnFlow(timestamp, m) ==
    LET p1 == IF IsDigit(m.first.port) THEN ToInt(m.first.port) ELSE 0
        p2 == IF IsDigit(m.second.port) THEN ToInt(m.second.port) ELSE 0
        swapped == \/ lower(m.direction) = "outbound"
                   \/ /\ m.direction = ""
                      /\ p2 > 1024 /\ p1 <= 1024
        direction ==
            IF m.direction # "" /\ lower(m.direction) \in {"outbound", "inbound"}
            THEN m.direction
            ELSE IF p2 > 1024 /\ p1 <= 1024 THEN "outbound (inferred)"
            ELSE IF p1 > 1024 /\ p2 <= 1024 THEN "inbound (inferred)"
            ELSE "unknown"
        src == IF swapped THEN m.second ELSE m.first
        dst == IF swapped THEN m.first ELSE m.second
    IN  [timestamp |-> timestamp, syslog_id |-> "3020xx", action |-> "allow",
         proto |-> lower(m.proto),
         src_ip |-> src.ip, src_port |-> src.port, src_intf |-> src.intf,
         dst_ip |-> dst.ip, dst_port |-> dst.port, dst_intf |-> dst.intf,
         direction |-> direction,
         bytes |-> IF m.bytes # "" THEN ToInt(m.bytes) ELSE 0,
         duration |-> IF m.duration # "" THEN m.duration ELSE "None"]

\* Variant: the addresses of a deny line exchanged.
DenyFlowSwapped(timestamp, m) ==
    [timestamp |-> timestamp, syslog_id |-> "106023", action |-> "deny",
     proto |-> lower(m.proto),
     src_intf |-> m.second.intf, src_ip |-> m.second.ip, src_port |-> "0",
     dst_intf |-> m.first.intf, dst_ip |-> m.first.ip, dst_port |-> "0",
     bytes |-> 0]

\* parse_line, the deny branch.
DenyFlow(timestamp, m) ==
    [timestamp |-> timestamp, syslog_id |-> "106023", action |-> "deny",
     proto |-> lower(m.proto),
     src_intf |-> m.first.intf, src_ip |-> m.first.ip, src_port |-> "0",
     dst_intf |-> m.second.intf, dst_ip |-> m.second.ip, dst_port |-> "0",
     bytes |-> 0]

\* parse_line, the permit branch.
PermitFlow(timestamp, m) ==
    [timestamp |-> timestamp, syslog_id |-> "106100", action |-> "allow",
     proto |-> lower(m.proto),
     src_intf |-> m.first.intf, src_ip |-> m.first.ip, src_port |-> m.first.port,
     dst_intf |-> m.second.intf, dst_ip |-> m.second.ip, dst_port |-> m.second.port,
     bytes |-> 0]

ConnIds == {"302013", "302014", "302015", "302016"}

parse_line(line) ==
    IF line = <<>> THEN NoFlow
    ELSE IF \E id \in ConnIds : Contains(line, id)
    THEN IF Search(ConnAt, line) # <<>>
         THEN ConnFlow(Timestamp(line), Search(ConnAt, line)[1])
         ELSE NoFlow
    ELSE IF Contains(line, "106023")
    THEN IF Search(DenyAt, line) # <<>>
         THEN DenyFlow(Timestamp(line), Search(DenyAt, line)[1])
         ELSE NoFlow
    ELSE IF Contains(line, "106100")
    THEN IF Search(PermitAt, line) # <<>>
         THEN PermitFlow(Timestamp(line), Search(PermitAt, line)[1])
         ELSE NoFlow
    ELSE NoFlow

----------------------------------------------------------------------------
\* The lines of an uploaded log.

StampWords == {<<>>, <<Stamp("Feb 05 2026 12:09:08")>>}

ConnPorts == {"53", "443", "1024", "1025", "53257"}

\* Built / Teardown lines: with and without a direction, with and without the
\* mapped addresses and the duration and bytes.
ConnLines ==
    {<<Stamp("Feb 05 2026 12:09:08"), Word(tag), Word(verb)>> \o dir
       \o <<Word("TCP"), Word("connection"), Word("660243732"), Word("for"),
            Endpoint("OUTSIDE", "17.138.175.254", p1)>>
       \o (IF mapped THEN <<Mapped("17.138.175.254", p1)>> ELSE <<>>)
       \o <<Word("to"), Endpoint("INSIDE", "10.20.31.16", p2)>>
       \o (IF mapped THEN <<Mapped("10.20.31.16", p2)>> ELSE <<>>)
       \o tail :
        tag \in {"%ASA-6-302013:", "%ASA-6-302014:", "%ASA-4-106023:"},
        verb \in {"Built", "Teardown"},
        dir \in {<<>>, <<Word("inbound")>>, <<Word("outbound")>>},
        p1 \in ConnPorts, p2 \in ConnPorts, mapped \in BOOLEAN,
        tail \in {<<>>,
                  <<Word("duration"), Word("0:02:01"), Word("bytes"),
                    Word("12640"), Word("TCP"), Word("FINs")>>}}

\* Deny lines: with and without the message id, with ports on the endpoints,
\* followed by a number that contains the id of a connection message.
DenyLines ==
    {stamp \o tag
       \o <<Word("Deny"), Word(proto), Word("src"),
            Endpoint("OUTSIDE", "10.1.0.162", p1), Word("dst"),
            Endpoint("INSIDE", "10.20.50.110", p2)>>
       \o tail :
        stamp \in StampWords,
        tag \in {<<>>, <<Word("%ASA-4-106023:")>>, <<Word("%ASA-4-106021:")>>},
        proto \in {"icmp", "ICMP"}, p1 \in {"", "443"}, p2 \in {"", "53"},
        tail \in {<<>>, <<Word("6302013")>>}}

PermitLines ==
    {stamp \o <<Word("%ASA-6-106100:"), Word("access-list"), Word("OUTSIDE-IN"),
                Word("permitted"), Word("tcp"),
                PermitEndpoint("OUTSIDE", "10.1.0.162", p1), Word("->"),
                PermitEndpoint("INSIDE", "10.20.50.110", p2)>> :
        stamp \in StampWords, p1 \in {"53257"}, p2 \in {"53", "443"}}

LogLines == {<<>>} \cup ConnLines \cup DenyLines \cup PermitLines

InitLog ==
    /\ AnalysisIdle
    /\ MigrationIdle
    /\ TrafficIdle
    /\ ChangeIdle
    /\ CoverIdle
    /\ UsageIdle
    /\ ParserIdle
    /\ MoreIdle
    /\ log_line \in LogLines
    /\ flow = <<>>
    /\ line_parsed = FALSE

ParseLine ==
    /\ ~line_parsed
    /\ flow' = parse_line(log_line)
    /\ line_parsed' = TRUE
    /\ UNCHANGED <<log_line, logOthers>>

NextLog == ParseLine

SpecLog == InitLog /\ [][NextLog]_vars

----------------------------------------------------------------------------
\* Properties of the log parser.

\* The Deny message of a line: the position of 'Deny <proto> src <intf>:<ip>
\* dst <intf>:<ip>' in it.
DenyMessages ==
    {i \in 1..Len(log_line) :
        /\ log_line[i] = Word("Deny")
        /\ At(log_line, i + 1).form = "word"
        /\ At(log_line, i + 2) = Word("src")
        /\ At(log_line, i + 3).form = "colon" /\ At(log_line, i + 3).port = ""
        /\ At(log_line, i + 4) = Word("dst")
        /\ At(log_line, i + 5).form = "colon" /\ At(log_line, i + 5).port = ""}

DenyParsed(i) ==
    /\ flow # NoFlow
    /\ flow.action = "deny"
    /\ flow.proto = lower(log_line[i + 1].text)
    /\ flow.src_ip = log_line[i + 3].ip
    /\ flow.dst_ip = log_line[i + 5].ip

\* C13 as stated: a line that contains the message 'Deny <proto> src
\* <intf>:<ip> dst <intf>:<ip>' is parsed to a deny record with the
\* lower-cased protocol and the two addresses, never to None.
C13_DenyMessageParsed ==
    line_parsed => \A i \in DenyMessages : DenyParsed(i)

\* C13 amended: the line is parsed so when it also carries the message id
\* 106023 and none of the connection ids 302013..302016; without the id
\* 106023, or with a connection id in it, parse_line returns None.
C13_DenyLineParsed ==
    line_parsed =>
        \A i \in DenyMessages :
            IF Contains(log_line, "106023")
               /\ \A id \in ConnIds : ~Contains(log_line, id)
            THEN DenyParsed(i)
            ELSE flow = NoFlow

\* The line of the deny scenario, with its id, has been parsed.
C13_Witness ==
    /\ line_parsed
    /\ DenyMessages # {}
    /\ Contains(log_line, "106023")
    /\ flow # NoFlow
    /\ flow.proto = "icmp"
    /\ flow.src_ip = "10.1.0.162"
    /\ flow.dst_ip = "10.20.50.110"

\* A connection line has been parsed to a record.
ConnParsed == line_parsed /\ flow # NoFlow /\ flow.syslog_id = "3020xx"

\* The endpoint after 'for' and the endpoint after 'to'.
ForEndpoint ==
    log_line[(CHOOSE i \in 1..Len(log_line) : log_line[i] = Word("for")) + 1]

ToEndpoint ==
    log_line[(CHOOSE i \in 1..Len(log_line) : log_line[i] = Word("to")) + 1]

\* The direction the line states: "inbound", "outbound", or "" for none.
StatedDirection ==
    IF \E i \in 1..Len(log_line) : log_line[i] = Word("inbound") THEN "inbound"
    ELSE IF \E i \in 1..Len(log_line) : log_line[i] = Word("outbound")
    THEN "outbound"
    ELSE ""

High(t) == ToInt(t.port) > 1024

SourceIs(t) ==
    flow.src_ip = t.ip /\ flow.src_port = t.port /\ flow.src_intf = t.intf

DestinationIs(t) ==
    flow.dst_ip = t.ip /\ flow.dst_port = t.port /\ flow.dst_intf = t.intf

\* The number after 'bytes' in the line; 0 when the line has none.
BytesInLine ==
    IF \E i \in 1..Len(log_line) : log_line[i] = Word("bytes")
    THEN ToInt(log_line[(CHOOSE i \in 1..Len(log_line) :
                            log_line[i] = Word("bytes")) + 1].text)
    ELSE 0

----------------------------------------------------------------------------
\* The change workflow: merge and cleanup requests (services/merger.py,
\* services/cleanup.py, routers/rules.py) and their approval
\* (routers/changes.py).

MaxDbRules == 2

MaxChanges == 1

MaxMergeChanges == 2

\* Stored rules of one ACL, covering or not, with equal and different hits.
DbRuleTemplates ==
    Templates({"A"}, {"any"}, {"any"}, {"ip"}, {"permit"}, {0, 5}, {"none"})
    \cup Templates({"A"}, {"10.0.0.0/24"}, {"any"},
                   {"ip"}, {"permit"}, {5}, {"none"})

DbRuleLists == {Stored(l) : l \in SeqsUpTo(DbRuleTemplates, MaxDbRules)}

DbIds(rs) == {rs[k].id : k \in 1..Len(rs)}

\* The group id is a digest of "<master id>-<number of candidates>".
GroupId(g) == <<g.master, Cardinality(g.candidates)>>

\* group.rules: the master, then its candidates in the order they were found.
GroupRules(rs, g) ==
    SelectSeq(rs, LAMBDA r : r.id = g.master)
        \o SelectSeq(rs, LAMBDA r : r.id \in g.candidates)

\* sorted(..., key=hits, reverse=True): stable, highest hit count first.
RECURSIVE InsertByHits(_, _)
InsertByHits(r, sorted) ==
    IF sorted = <<>> THEN <<r>>
    ELSE IF Head(sorted).hits >= r.hits
         THEN <<Head(sorted)>> \o InsertByHits(r, Tail(sorted))
    ELSE <<r>> \o sorted

\* Variant: the group left in its own order, the covering rule first.
KeepOrder(rs) == rs

RECURSIVE SortByHits(_)
SortByHits(rs) ==
    IF rs = <<>> THEN <<>>
    ELSE InsertByHits(rs[Len(rs)], SortByHits(SubSeq(rs, 1, Len(rs) - 1)))

MergeSnapshot(sorted_rules) ==
    [k \in 1..Len(sorted_rules) |->
        [id |-> sorted_rules[k].id,
         role |-> IF k = 1 THEN "master" ELSE "redundant",
         name |-> sorted_rules[k].name,
         hits |-> sorted_rules[k].hits]]

NewChange(type, rules_affected) ==
    [type |-> type, status |-> "pending", rules_affected |-> rules_affected]

\* execute_merge settling for the first group on offer when the id is unknown.
execute_merge_first(rs, group_id, candidate_groups) ==
    IF candidate_groups = {}
    THEN [raised |-> TRUE, success |-> FALSE,
          message |-> "Merge group not found or expired", added |-> <<>>]
    ELSE LET group == CHOOSE g \in candidate_groups : TRUE
         IN  [raised |-> FALSE, success |-> TRUE, message |-> "Pending approval",
              added |-> <<NewChange("merge",
                  MergeSnapshot(SortByHits(GroupRules(rs, group))))>>]

\* MergerService.execute_merge: what it raises or returns, and the Change
\* records it adds.
execute_merge(rs, group_id, candidate_groups) ==
    LET found == {g \in candidate_groups : GroupId(g) = group_id}
    IN  IF found = {}
        THEN [raised |-> TRUE, success |-> FALSE,
              message |-> "Merge group not found or expired", added |-> <<>>]
        ELSE LET group == CHOOSE g \in found : TRUE
                 rules_to_merge == GroupRules(rs, group)
             IN  IF Len(rules_to_merge) < 2
                 THEN [raised |-> FALSE, success |-> FALSE,
                       message |-> "Group has insufficient rules",
                       added |-> <<>>]
                 ELSE [raised |-> FALSE, success |-> TRUE,
                       message |-> "Pending approval",
                       added |-> <<NewChange("merge",
                           MergeSnapshot(SortByHits(rules_to_merge)))>>]

\* The loop of the merge endpoint over request.group_ids.
RECURSIVE MergeRequestLoop(_, _, _, _)
MergeRequestLoop(rs, group_ids, current_candidates, acc) ==
    IF group_ids = <<>> THEN acc
    ELSE LET group_id == Head(group_ids)
             result == execute_merge(rs, group_id, current_candidates)
         IN  MergeRequestLoop(rs, Tail(group_ids), current_candidates,
                 IF result.success
                 THEN [acc EXCEPT !.requests_created = @ + 1,
                                  !.added = @ \o result.added]
                 ELSE [acc EXCEPT !.errors =
                           @ \o <<[group_id |-> group_id,
                                   message |-> result.message]>>])

MergeEndpoint(rs, group_ids) ==
    LET out == MergeRequestLoop(rs, group_ids, identify_candidates(rs),
                   [requests_created |-> 0, errors |-> <<>>, added |-> <<>>])
    IN  [result |-> [success |-> out.errors = <<>> \/ out.requests_created # 0,
                     requests_created |-> out.requests_created,
                     errors |-> out.errors],
         added |-> out.added]

CleanupSnapshot(found) ==
    [k \in 1..Len(found) |->
        [id |-> found[k].id, name |-> found[k].name,
         source |-> found[k].source, destination |-> found[k].destination,
         service |-> found[k].service, action |-> found[k].action]]

\* CleanupService.cleanup_rules: the Change records it adds.
cleanup_rules(rs, rule_ids) ==
    LET found == SelectSeq(rs, LAMBDA r : r.id \in rule_ids)
    IN  IF found = <<>> THEN <<>>
        ELSE <<NewChange("cleanup", CleanupSnapshot(found))>>

AffectedIds(change) ==
    {change.rules_affected[k].id : k \in 1..Len(change.rules_affected)}

DeleteRules(rs, ids) == SelectSeq(rs, LAMBDA r : r.id \notin ids)

HitsOf(rs, id) == SelectSeq(rs, LAMBDA r : r.id = id)[1].hits

\* master_rule.hits += redundant_rule.hits; db.delete(redundant_rule)
RECURSIVE TransferHits(_, _, _)
TransferHits(rs, master_id, redundant_infos) ==
    IF redundant_infos = <<>> THEN rs
    ELSE LET r_id == Head(redundant_infos).id
         IN  IF r_id \notin DbIds(rs)
             THEN TransferHits(rs, master_id, Tail(redundant_infos))
             ELSE TransferHits(
                      DeleteRules(
                          [k \in 1..Len(rs) |->
                              IF rs[k].id = master_id
                              THEN [rs[k] EXCEPT !.hits = @ + HitsOf(rs, r_id)]
                              ELSE rs[k]],
                          {r_id}),
                      master_id, Tail(redundant_infos))

ExecutedTypes == {"cleanup", "cleanup-objects", "merge", "delete"}

\* The rule base after update_change has executed an approved change.
ExecuteChange(rs, change) ==
    IF change.type \in {"cleanup", "delete"}
    THEN DeleteRules(rs, AffectedIds(change))
    ELSE IF change.type = "merge"
    THEN LET masters == SelectSeq(change.rules_affected,
                                  LAMBDA r : r.role = "master")
             redundant_infos == SelectSeq(change.rules_affected,
                                          LAMBDA r : r.role = "redundant")
         IN  IF masters # <<>> /\ redundant_infos # <<>>
                /\ masters[1].id \in DbIds(rs)
             THEN TransferHits(rs, masters[1].id, redundant_infos)
             ELSE rs
    ELSE rs

\* A change executed on any update of its status.
ExecutesOnUpdate(change, new_status) == TRUE

Executes(change, new_status) ==
    new_status = "approved" /\ change.status # "approved"

\* The group ids a client may send: the first rule as master of one or more
\* candidates; the largest count is one no group reaches.
GroupIds == {<<1, n>> : n \in 1..MaxDbRules}

\* A merge request names one group or two different ones.
MergeRequests ==
    {<<g>> : g \in GroupIds}
        \cup {pair \in GroupIds \X GroupIds : pair[1] # pair[2]}

\* Rule ids a cleanup request may name; the last one is never stored.
CleanupRequests == {{1}, 1..MaxDbRules, {MaxDbRules + 1}}

\* The changes a client may submit itself.
ChangeRequests ==
    {NewChange(type, <<[id |-> 1]>>) : type \in {"delete", "modify"}}

StatusUpdates == {"approved", "rejected"}

InitChanges ==
    /\ db_rules \in DbRuleLists
    /\ changes = <<>>
    /\ request = NoRequest
    /\ response = NoRequest
    /\ AnalysisIdle
    /\ MigrationIdle
    /\ TrafficIdle
    /\ LogIdle
    /\ CoverIdle
    /\ UsageIdle
    /\ ParserIdle
    /\ MoreIdle

\* GET /rules/merge-candidates
GetMergeCandidates ==
    /\ request' = [op |-> "merge_candidates"]
    /\ response' = [groups |-> identify_candidates(db_rules)]
    /\ UNCHANGED <<db_rules, changes>>
    /\ UNCHANGED changeOthers

\* POST /rules/merge, with room for max Change records.
ExecuteMergeWithin(max) ==
    \E group_ids \in MergeRequests :
        LET out == MergeEndpoint(db_rules, group_ids)
        IN  /\ Len(changes) + Len(out.added) <= max
            /\ request' = [op |-> "merge", group_ids |-> group_ids]
            /\ response' = out.result
            /\ changes' = changes \o out.added
            /\ UNCHANGED db_rules
            /\ UNCHANGED changeOthers

ExecuteMerge == ExecuteMergeWithin(MaxChanges)

\* POST /rules/cleanup
CleanupRules ==
    \E rule_ids \in CleanupRequests :
        LET added == cleanup_rules(db_rules, rule_ids)
        IN  /\ Len(changes) + Len(added) <= MaxChanges
            /\ request' = [op |-> "cleanup", rule_ids |-> rule_ids]
            /\ response' = [success |-> added # <<>>]
            /\ changes' = changes \o added
            /\ UNCHANGED db_rules
            /\ UNCHANGED changeOthers

\* POST /changes, with room for max Change records.
CreateChangeWithin(max) ==
    \E change_data \in ChangeRequests :
        /\ Len(changes) < max
        /\ request' = [op |-> "create_change", change_data |-> change_data]
        /\ response' = change_data
        /\ changes' = changes \o <<change_data>>
        /\ UNCHANGED db_rules
        /\ UNCHANGED changeOthers

CreateChange == CreateChangeWithin(MaxChanges)

\* PUT /changes/{change_id}
UpdateChange ==
    \E c \in 1..Len(changes), new_status \in StatusUpdates :
        LET change == changes[c]
            executes == Executes(change, new_status)
        IN  /\ db_rules' = IF executes THEN ExecuteChange(db_rules, change)
                           ELSE db_rules
            /\ changes' = [changes EXCEPT ![c].status =
                              IF executes /\ change.type \in ExecutedTypes
                              THEN "implemented" ELSE new_status]
            /\ request' = [op |-> "update_change", change |-> c,
                           status |-> new_status]
            /\ response' = changes'[c]
            /\ UNCHANGED changeOthers

NextChanges ==
    \/ GetMergeCandidates
    \/ ExecuteMerge
    \/ CleanupRules
    \/ CreateChange
    \/ UpdateChange

SpecChanges == InitChanges /\ [][NextChanges]_vars

\* Merge requests next to changes a client submits itself, and their approval.
RequestMerge == ExecuteMergeWithin(MaxMergeChanges)

SubmitChange == CreateChangeWithin(MaxMergeChanges)

NextMerge == RequestMerge \/ SubmitChange \/ UpdateChange

SpecMerge == InitChanges /\ [][NextMerge]_vars

----------------------------------------------------------------------------
\* Claims about the change workflow.

AdviceOps == {"merge_candidates", "merge", "cleanup"}

\* The step served an update_change request that sets the status of a change
\* not yet approved to approved.
ApprovalStep ==
    /\ request'.op = "update_change"
    /\ request'.status = "approved"
    /\ changes[request'.change].status # "approved"

\* The step left every stored Change as it was and added pending ones only.
OnlyPendingAdded ==
    /\ Len(changes') >= Len(changes)
    /\ SubSeq(changes', 1, Len(changes)) = changes
    /\ \A k \in Len(changes) + 1..Len(changes') : changes'[k].status = "pending"

\* C16: merge and cleanup advice (identify_candidates, execute_merge,
\* cleanup_rules) never mutates the rule base, it only adds Change records in
\* status pending; a rule is deleted or has its hits changed only in a step of
\* update_change whose request sets a change's status to approved.
C16_MutationOnlyOnApproval ==
    [][/\ request'.op \in AdviceOps => db_rules' = db_rules /\ OnlyPendingAdded
       /\ db_rules' # db_rules => ApprovalStep]_vars

\* An approved merge has deleted the redundant rule and summed its hits into
\* the master.
C16_Witness ==
    /\ request.op = "update_change"
    /\ request.status = "approved"
    /\ changes[request.change].type = "merge"
    /\ changes[request.change].status = "implemented"
    /\ Len(db_rules) = 1
    /\ db_rules[1].hits = 10

OfferedIds(rs) == {GroupId(g) : g \in identify_candidates(rs)}

UnknownAt(rs, group_ids) ==
    {k \in 1..Len(group_ids) : group_ids[k] \notin OfferedIds(rs)}

\* C17: a merge request naming a group id that is not among the current
\* merge candidates gets an error entry carrying that id, adds no Change
\* record for it and modifies no rule.
C17_UnknownGroupReported ==
    [][request'.op = "merge" =>
        LET group_ids == request'.group_ids
            unknown == UnknownAt(db_rules, group_ids)
        IN  /\ \A k \in unknown :
                   \E e \in 1..Len(response'.errors) :
                       response'.errors[e].group_id = group_ids[k]
            /\ Len(changes') = Len(changes) + Len(group_ids) - Cardinality(unknown)
            /\ response'.requests_created = Len(group_ids) - Cardinality(unknown)
            /\ db_rules' = db_rules]_vars

\* A request naming a group on offer and an unknown one: one Change, one error.
C17_Witness ==
    /\ request.op = "merge"
    /\ Len(request.group_ids) = 2
    /\ UnknownAt(db_rules, request.group_ids) = {2}
    /\ response.requests_created = 1
    /\ Len(response.errors) = 1
    /\ response.errors[1].group_id = request.group_ids[2]
    /\ Len(changes) = 1

----------------------------------------------------------------------------
\* The two address predicates applied to a pair of strings.

\* Keywords, object names, IPv4 and IPv6 literals, service strings.
CoverTexts ==
    {"any", "ANY", "any ", "0.0.0.0/0", "WEB", "web", "10.0.0.0/8",
     "10.0.0.0/24", "10.0.0.5/24", "10.0.0.5/32", "10.0.0.5", "10.0.1.7",
     "2001:db8::/32", "::/0", "tcp/80", "ip"}

Outcome(raises, value) ==
    IF raises THEN "TypeError" ELSE IF value THEN "True" ELSE "False"

\* _covers on two rules that differ in their source only.
covers_outcome(a1, a2) ==
    Outcome(AddressCoverRaises(a1, a2),
            Covers([source |-> a1, destination |-> "any", service |-> "ip"],
                   [source |-> a2, destination |-> "any", service |-> "ip"]))

subset_outcome(sub, super) ==
    Outcome(IsNetworkSubsetRaises(sub, super), IsNetworkSubset(sub, super))

InitCover ==
    /\ cover_pair \in CoverTexts \X CoverTexts
    /\ cover_out = "none"
    /\ subset_out = "none"
    /\ AnalysisIdle
    /\ MigrationIdle
    /\ TrafficIdle
    /\ LogIdle
    /\ ChangeIdle
    /\ UsageIdle
    /\ ParserIdle
    /\ MoreIdle

\* AnalysisEngine._covers(r1, r2): cover_pair[1] is the source of r1.
CoversCall ==
    /\ cover_out = "none"
    /\ cover_out' = covers_outcome(cover_pair[1], cover_pair[2])
    /\ UNCHANGED <<cover_pair, subset_out, coverOthers>>

\* ShadowDetectorService._is_network_subset(sub, super): cover_pair[1] is
\* super, the covering side.
SubsetCall ==
    /\ subset_out = "none"
    /\ subset_out' = subset_outcome(cover_pair[2], cover_pair[1])
    /\ UNCHANGED <<cover_pair, cover_out, coverOthers>>

NextCover == CoversCall \/ SubsetCall

SpecCover == InitCover /\ [][NextCover]_vars

----------------------------------------------------------------------------
\* Claims about the two address predicates.

\* The string is no keyword and no network literal.
Unparsed(text) == ~to_net(text).ok

\* The fallback the comparison is specified to take.
StringFallback(covering, covered) ==
    Outcome(FALSE, covering = covered \/ covering \in {"any", "0.0.0.0/0"})

\* C18: the coverage predicate never raises for a pair of strings, and when
\* either side does not parse as a network the result is exact string
\* equality or the covering side being any / 0.0.0.0/0, for both _covers and
\* _is_network_subset.
C18_NeverRaises ==
    /\ cover_out # "TypeError"
    /\ subset_out # "TypeError"
    /\ \A out \in {cover_out, subset_out} \ {"none"} :
           Unparsed(cover_pair[1]) \/ Unparsed(cover_pair[2]) =>
               out = StringFallback(cover_pair[1], cover_pair[2])

----------------------------------------------------------------------------
\* ObjectService.analyze_usage: the recursive marking of groups and objects.

MaxGroups == 2

AllGroupNames == <<"G1", "G2", "G3", "G4">>

AllObjectNames == <<"O1", "O2", "O3", "O4">>

GroupNames == {AllGroupNames[k] : k \in 1..MaxGroups}

ObjectNames == {AllObjectNames[k] : k \in 1..MaxGroups}

\* grp.member_objects: group Gk holds object Ok.
member_objects(group_name) ==
    {AllObjectNames[k] : k \in {i \in 1..MaxGroups : AllGroupNames[i] = group_name}}

\* Every membership graph over the groups, self-loops and cycles included.
GroupGraphs == [GroupNames -> SUBSET GroupNames]

\* The names the rules refer to: one group, all groups, a group and an object,
\* a name that is neither.
UsedNameSets ==
    {{g} : g \in GroupNames} \cup {GroupNames, {"G1", "O1"}, {"WEB"}}

\* Variant: the marking without its memory of the names seen.
NeverProcessed(group_name, processed) == FALSE

\* if group_name in processed_groups: return
AlreadyProcessed(group_name, processed) == group_name \in processed

Frame(group_name, top) ==
    [name |-> group_name, subs_left |-> sub_groups[group_name], top |-> top]

InitUsage ==
    /\ sub_groups \in GroupGraphs
    /\ used_names \in UsedNameSets
    /\ names_left = used_names
    /\ processed_groups = {}
    /\ call_stack = <<>>
    /\ groups_used = {}
    /\ objects_used = {}
    /\ visits = [name \in GroupNames \cup ObjectNames \cup {"WEB"} |-> 0]
    /\ usage_pc = "marking"
    /\ AnalysisIdle
    /\ MigrationIdle
    /\ TrafficIdle
    /\ LogIdle
    /\ ChangeIdle
    /\ CoverIdle
    /\ ParserIdle
    /\ MoreIdle

\* mark_group_used(group_name), called with the caller's frames in stack and
\* the groups marked so far in used: up to the first sub-group, or the return.
EnterGroup(group_name, stack, used, top) ==
    IF AlreadyProcessed(group_name, processed_groups)
    THEN /\ call_stack' = stack
         /\ groups_used' = used
         /\ UNCHANGED <<processed_groups, visits>>
    ELSE /\ processed_groups' = processed_groups \cup {group_name}
         /\ visits' = [visits EXCEPT ![group_name] = @ + 1]
         /\ IF group_name \in GroupNames
            THEN /\ groups_used' = used \cup {group_name}
                 /\ call_stack' = stack \o <<Frame(group_name, top)>>
            ELSE /\ groups_used' = used
                 /\ call_stack' = stack

\* mark_object_used(obj_name): the objects it marks.
mark_object_used(obj_name) == {obj_name} \cap ObjectNames

\* for name in used_names: mark_group_used(name); mark_object_used(name)
TakeName ==
    /\ usage_pc = "marking"
    /\ call_stack = <<>>
    /\ \E name \in names_left :
           /\ names_left' = names_left \ {name}
           /\ EnterGroup(name, <<>>, groups_used, TRUE)
           /\ objects_used' = IF call_stack' = <<>>
                               THEN objects_used \cup mark_object_used(name)
                               ELSE objects_used
    /\ UNCHANGED <<sub_groups, used_names, usage_pc, usageOthers>>

\* for sub in grp.sub_groups: sub.is_unused = False; mark_group_used(sub.name)
VisitSubGroup ==
    /\ call_stack # <<>>
    /\ \E sub \in call_stack[Len(call_stack)].subs_left :
           EnterGroup(sub,
                      [call_stack EXCEPT ![Len(call_stack)].subs_left = @ \ {sub}],
                      groups_used \cup {sub}, FALSE)
    /\ UNCHANGED <<sub_groups, used_names, names_left, objects_used, usage_pc,
                   usageOthers>>

\* for obj in grp.member_objects: obj.is_unused = False; return
ReturnFromGroup ==
    /\ call_stack # <<>>
    /\ LET frame == call_stack[Len(call_stack)]
       IN  /\ frame.subs_left = {}
           /\ objects_used' =
                  objects_used \cup member_objects(frame.name)
                      \cup (IF frame.top THEN mark_object_used(frame.name)
                            ELSE {})
           /\ call_stack' = SubSeq(call_stack, 1, Len(call_stack) - 1)
    /\ UNCHANGED <<sub_groups, used_names, names_left, processed_groups,
                   groups_used, visits, usage_pc, usageOthers>>

\* db.commit()
CommitUsage ==
    /\ usage_pc = "marking"
    /\ call_stack = <<>>
    /\ names_left = {}
    /\ usage_pc' = "done"
    /\ UNCHANGED <<sub_groups, used_names, names_left, processed_groups,
                   call_stack, groups_used, objects_used, visits, usageOthers>>

NextUsage == TakeName \/ VisitSubGroup \/ ReturnFromGroup \/ CommitUsage

SpecUsage == InitUsage /\ [][NextUsage]_vars

\* The call runs on one thread that is never suspended for good.
SpecUsageFair == SpecUsage /\ WF_vars(NextUsage)

----------------------------------------------------------------------------
\* Claims about analyze_usage.

\* The groups reachable from the used names along the membership graph.
RECURSIVE ReachableGroups(_)
ReachableGroups(seen) ==
    LET more == seen \cup UNION {sub_groups[g] : g \in seen \cap GroupNames}
    IN  IF more = seen THEN seen ELSE ReachableGroups(more)

VisitedOnce == \A name \in DOMAIN visits : visits[name] <= 1

\* C19: analyze_usage terminates for every group membership graph, cycles
\* included, and the recursive marking goes through each group name at most
\* once.
C19_MarkingTerminates == <>(usage_pc = "done") /\ []VisitedOnce

\* The marking has finished on two groups that are sub-groups of each other,
\* each gone through once.
C19_Witness ==
    /\ usage_pc = "done"
    /\ used_names = {"G1"}
    /\ "G2" \in sub_groups["G1"]
    /\ "G1" \in sub_groups["G2"]
    /\ visits["G1"] = 1
    /\ visits["G2"] = 1
    /\ groups_used = {"G1", "G2"}

----------------------------------------------------------------------------
\* ConfigParser._parse_cisco_rules.  A line is its indentation and the words
\* of line.split().

MaxLines == 4

ConfigLine(indented, parts) == [indented |-> indented, parts |-> parts]

RuleA == <<"access-list", "A", "extended", "permit", "ip", "any", "any">>

\* A rule of another ACL, with the ACL's own line number in it.
RuleB ==
    <<"access-list", "B", "line", "1", "extended", "deny", "tcp", "any", "any",
      "eq", "80">>

RemarkLine == <<"access-list", "A", "remark", "permit", "web">>

OtherLine == <<"interface", "GigabitEthernet0/0">>

\* The port operator without its value: parts[idx+1] raises IndexError.
BrokenRule == <<"access-list", "A", "extended", "permit", "tcp", "any", "any", "eq">>

\* 'permit' is in the lower-cased line but no word of the line is 'permit'.
UnanchoredRule == <<"access-list", "A", "extended", "Permit", "ip", "any", "any">>

LineTypes ==
    <<ConfigLine(FALSE, RuleA), ConfigLine(FALSE, RuleB),
      ConfigLine(FALSE, RemarkLine), ConfigLine(FALSE, OtherLine),
      ConfigLine(FALSE, BrokenRule), ConfigLine(FALSE, UnanchoredRule),
      ConfigLine(TRUE, RuleA), ConfigLine(TRUE, RuleB),
      ConfigLine(TRUE, BrokenRule)>>

ConfigLines == {LineTypes[k] : k \in 1..Len(LineTypes)}

Configs == SeqsUpTo(ConfigLines, MaxLines)

\* word in lower_line, for a word that is no part of a longer one
InLowerLine(word, parts) == \E i \in 1..Len(parts) : lower(parts[i]) = word

\* ' remark ' in lower_line or lower_line.endswith(' remark')
IsRemarkLine(parts) == \E i \in 2..Len(parts) : lower(parts[i]) = "remark"

\* parts.index(word), counted from 1; 0 when the word is not in parts
IndexOf(word, parts) ==
    IF \E i \in 1..Len(parts) : parts[i] = word
    THEN CHOOSE i \in 1..Len(parts) :
             parts[i] = word /\ \A j \in 1..i - 1 : parts[j] # word
    ELSE 0

ActionIndex(parts) ==
    IF IndexOf("permit", parts) # 0 THEN IndexOf("permit", parts)
    ELSE IndexOf("deny", parts)

PortOperators == {"eq", "lt", "gt", "neq", "range"}

IsDottedQuad(word) == AddressText(word).prefix = -1 /\ AddressText(word) # NotAnAddress

\* _extract_ip: the position after the address read at idx.
ExtractIpNext(parts, idx) ==
    IF idx > Len(parts) THEN idx
    ELSE LET token == lower(parts[idx])
         IN  IF token \in PortOperators \cup {"log", "time-range"} THEN idx
             ELSE IF token \in {"any", "any4", "any6"} THEN idx + 1
             ELSE IF token \in {"host", "object", "object-group"}
                  THEN IF idx + 1 <= Len(parts) THEN idx + 2 ELSE idx + 1
             ELSE IF idx + 1 <= Len(parts) /\ IsDottedQuad(parts[idx + 1])
                  THEN idx + 2
             ELSE idx + 1

\* The position where the source starts: after the action and the protocol.
SourceIndex(parts) ==
    LET idx == ActionIndex(parts) + 2
    IN  IF lower(parts[ActionIndex(parts) + 1]) = "object-group"
           /\ Len(parts) >= idx
        THEN idx + 1 ELSE idx

\* The position where the destination starts, and whether reading the source
\* port raised IndexError on the way.
SourcePort(parts) ==
    LET idx == ExtractIpNext(parts, SourceIndex(parts))
    IN  IF idx <= Len(parts) /\ parts[idx] \in PortOperators
        THEN IF parts[idx] = "range"
             THEN [raises |-> idx + 2 > Len(parts), next |-> idx + 3]
             ELSE [raises |-> idx + 1 > Len(parts), next |-> idx + 2]
        ELSE [raises |-> FALSE, next |-> idx]

\* The try block raises: a port operator is the last word of the line.
ParseRaises(parts) ==
    \/ SourcePort(parts).raises
    \/ LET idx == ExtractIpNext(parts, SourcePort(parts).next)
       IN  /\ idx <= Len(parts)
           /\ parts[idx] \in PortOperators
           /\ idx + 1 > Len(parts)

\* The line is left with `continue` before the try block or inside it.
IsSkipped(parts) ==
    \/ ~(InLowerLine("access-list", parts)
           /\ (InLowerLine("permit", parts) \/ InLowerLine("deny", parts)))
    \/ IsRemarkLine(parts)
    \/ ActionIndex(parts) = 0
    \/ ActionIndex(parts) + 1 > Len(parts)

\* name = parts[1] if parts[0].lower() == 'access-list' else "Unknown"
AclName(parts) ==
    IF lower(parts[1]) = "access-list" THEN parts[2] ELSE "Unknown"

\* Variant: the sequence of a rule is its position in its own ACL.
NextSequencePerAcl(line, counter, rs) ==
    IF line.indented THEN counter
    ELSE 1 + Cardinality({k \in 1..Len(rs) : rs[k].name = AclName(line.parts)})

\* if not is_indented: sequence_counter += 1
NextSequence(line, counter, rs) ==
    IF line.indented THEN counter ELSE counter + 1

rule_obj(line, line_index, sequence) ==
    [name |-> AclName(line.parts), action |-> line.parts[ActionIndex(line.parts)],
     raw |-> line, line |-> line_index, sequence |-> sequence,
     children |-> <<>>]

InitParser ==
    /\ config_lines \in Configs
    /\ line_no = 0
    /\ structured_rules = <<>>
    /\ current_parent = 0
    /\ sequence_counter = 0
    /\ parser_pc = "parsing"
    /\ AnalysisIdle
    /\ MigrationIdle
    /\ TrafficIdle
    /\ LogIdle
    /\ ChangeIdle
    /\ CoverIdle
    /\ UsageIdle
    /\ MoreIdle

NextLine == config_lines[line_no + 1]

\* The line is no rule line: continue.
SkipLine ==
    /\ parser_pc = "parsing"
    /\ line_no < Len(config_lines)
    /\ IsSkipped(NextLine.parts)
    /\ line_no' = line_no + 1
    /\ UNCHANGED <<config_lines, structured_rules, current_parent,
                   sequence_counter, parser_pc, parserOthers>>

\* The line raises inside the try block: except Exception: continue.
DropLine ==
    /\ parser_pc = "parsing"
    /\ line_no < Len(config_lines)
    /\ ~IsSkipped(NextLine.parts)
    /\ ParseRaises(NextLine.parts)
    /\ line_no' = line_no + 1
    /\ UNCHANGED <<config_lines, structured_rules, current_parent,
                   sequence_counter, parser_pc, parserOthers>>

\* A rule line that is not indented, or is indented with no parent yet.
AddRule ==
    /\ parser_pc = "parsing"
    /\ line_no < Len(config_lines)
    /\ ~IsSkipped(NextLine.parts)
    /\ ~ParseRaises(NextLine.parts)
    /\ ~(NextLine.indented /\ current_parent # 0)
    /\ sequence_counter' =
           NextSequence(NextLine, sequence_counter, structured_rules)
    /\ structured_rules' =
           Append(structured_rules,
                  rule_obj(NextLine, line_no + 1, sequence_counter'))
    /\ current_parent' = Len(structured_rules')
    /\ line_no' = line_no + 1
    /\ UNCHANGED <<config_lines, parser_pc, parserOthers>>

\* An indented rule line under a parent: it takes the parent's sequence.
AddChild ==
    /\ parser_pc = "parsing"
    /\ line_no < Len(config_lines)
    /\ ~IsSkipped(NextLine.parts)
    /\ ~ParseRaises(NextLine.parts)
    /\ NextLine.indented /\ current_parent # 0
    /\ sequence_counter' =
           NextSequence(NextLine, sequence_counter, structured_rules)
    /\ structured_rules' =
           [structured_rules EXCEPT ![current_parent].children =
               Append(@, rule_obj(NextLine, line_no + 1,
                                  structured_rules[current_parent].sequence))]
    /\ line_no' = line_no + 1
    /\ UNCHANGED <<config_lines, current_parent, parser_pc, parserOthers>>

\* return structured_rules
ReturnRules ==
    /\ parser_pc = "parsing"
    /\ line_no = Len(config_lines)
    /\ parser_pc' = "returned"
    /\ UNCHANGED <<config_lines, line_no, structured_rules, current_parent,
                   sequence_counter, parserOthers>>

NextParser == SkipLine \/ DropLine \/ AddRule \/ AddChild \/ ReturnRules

SpecParser == InitParser /\ [][NextParser]_vars

----------------------------------------------------------------------------
\* Claims about _parse_cisco_rules.

\* The line yields a rule: it is neither skipped nor dropped.
IsRuleLine(line) == ~IsSkipped(line.parts) /\ ~ParseRaises(line.parts)

\* The rule lines without indentation among the first n lines.
PlainRuleLines(n) ==
    {k \in 1..n : ~config_lines[k].indented /\ IsRuleLine(config_lines[k])}

TopLevelIncreasing ==
    \A i \in 1..Len(structured_rules), j \in 1..Len(structured_rules) :
        i < j => /\ structured_rules[i].line < structured_rules[j].line
                 /\ structured_rules[i].sequence < structured_rules[j].sequence

PlainLinesConsecutive ==
    \A i \in 1..Len(structured_rules) :
        ~structured_rules[i].raw.indented =>
            structured_rules[i].sequence =
                Cardinality(PlainRuleLines(structured_rules[i].line))

NoNumberConsumed == sequence_counter = Cardinality(PlainRuleLines(line_no))

ChildrenInherit ==
    \A i \in 1..Len(structured_rules) :
        \A c \in 1..Len(structured_rules[i].children) :
            structured_rules[i].children[c].sequence =
                structured_rules[i].sequence

\* C20: sequence numbers come from one global counter: the top-level rules
\* carry strictly increasing sequences in file order whatever their ACL name,
\* the rule lines without indentation are numbered 1, 2, 3, ..., skipped and
\* dropped lines consume no number, and a child carries the sequence of the
\* top-level rule it is attached to.
C20_GlobalSequence ==
    /\ TopLevelIncreasing
    /\ PlainLinesConsecutive
    /\ NoNumberConsumed
    /\ ChildrenInherit

\* Two ACLs with a skipped or dropped line between their rules, and a child
\* under the second rule.
C20_Witness ==
    /\ parser_pc = "returned"
    /\ Len(structured_rules) = 2
    /\ structured_rules[1].name = "A"
    /\ structured_rules[1].sequence = 1
    /\ structured_rules[2].name = "B"
    /\ structured_rules[2].line = 3
    /\ structured_rules[2].sequence = 2
    /\ Len(structured_rules[2].children) = 1
    /\ structured_rules[2].children[1].sequence = 2


----------------------------------------------------------------------------
\* The per-rule checks of AnalysisEngine.analyze.

\* The any-derived findings emitted for rule b.
AnyDerivedFor(b) == FindingsFor(b, "high-risk") \cup FindingsFor(b, "risk")

\* The supernet findings emitted for one field of rule b.
SupernetFor(b, field) ==
    {k \in FindingsFor(b, "supernet") : findings[k].field = field}

\* The severity the priority any-any, destination-any, source-any gives.
AnySeverity(r) ==
    IF ~IsPermit(r) THEN "none"
    ELSE IF lower(r.source) = "any" /\ lower(r.destination) = "any" THEN "critical"
    ELSE IF lower(r.destination) = "any" THEN "high"
    ELSE IF lower(r.source) = "any" THEN "medium"
    ELSE "none"

AnyByPriority(b) ==
    IF AnySeverity(rules[b]) = "none" THEN AnyDerivedFor(b) = {}
    ELSE /\ Cardinality(AnyDerivedFor(b)) = 1
         /\ \A k \in AnyDerivedFor(b) : findings[k].severity = AnySeverity(rules[b])

\* C21 as stated: after analyze every rule has at most one any-derived
\* finding (any-any, else destination-any, else source-any), at most one
\* supernet finding and at most one unused finding.
C21_OncePerRule ==
    Analyzed =>
        \A b \in 1..Len(rules) :
            /\ AnyByPriority(b)
            /\ Cardinality(FindingsFor(b, "supernet")) <= 1
            /\ Cardinality(FindingsFor(b, "unused")) <= 1

\* C21 amended: after analyze every rule has at most one any-derived finding
\* (any-any, else destination-any, else source-any), at most one unused
\* finding, and at most one supernet finding for each of its two fields
\* source and destination, so up to two supernet findings.
C21_OncePerRuleAndField ==
    Analyzed =>
        \A b \in 1..Len(rules) :
            /\ AnyByPriority(b)
            /\ Cardinality(SupernetFor(b, "source")) <= 1
            /\ Cardinality(SupernetFor(b, "destination")) <= 1
            /\ FindingsFor(b, "supernet")
                   = SupernetFor(b, "source") \cup SupernetFor(b, "destination")
            /\ Cardinality(FindingsFor(b, "unused")) <= 1

\* Analysed: an any-any permit rule with its single critical finding, next to
\* a rule broad in both fields with its two supernet findings.
C21_Witness ==
    /\ Analyzed
    /\ \E b \in 1..Len(rules) :
          /\ AnySeverity(rules[b]) = "critical"
          /\ Cardinality(AnyDerivedFor(b)) = 1
          /\ Cardinality(FindingsFor(b, "unused")) = 1
    /\ \E b \in 1..Len(rules) :
          /\ Cardinality(SupernetFor(b, "source")) = 1
          /\ Cardinality(SupernetFor(b, "destination")) = 1


----------------------------------------------------------------------------
\* Action synonyms in the two coverage classifications.

SameNormalizedAction(a, b) ==
    normalize_action(lower(rules[a].action)) = normalize_action(lower(rules[b].action))

\* C22: a rule whose first covering prior rule has the same action after
\* normalization (permit and allow alike, deny and drop alike) is reported as
\* redundant and never as shadowed by analyze, and is not reported by
\* detect_shadowed_rules.
C22_SynonymsRedundant ==
    (Analyzed /\ ShadowDetected) =>
        \A b \in 1..Len(rules) :
            /\ (AnalyzeCoverers(b) # {}
                 /\ SameNormalizedAction(First(AnalyzeCoverers(b)), b)) =>
                    /\ Cardinality(FindingsFor(b, "redundant")) = 1
                    /\ FindingsFor(b, "shadowed") = {}
            /\ (ShadowCoverers(b) # {}
                 /\ SameNormalizedAction(First(ShadowCoverers(b)), b)) =>
                    IssuesFor(b) = {}


----------------------------------------------------------------------------
\* The approval of a merge change.

RECURSIVE TotalHits(_)
TotalHits(rs) == IF rs = <<>> THEN 0 ELSE Head(rs).hits + TotalHits(Tail(rs))

\* The step served an approval request for a merge change.
MergeApprovalStep ==
    /\ ApprovalStep
    /\ changes[request'.change].type = "merge"

SnapshotMaster(change) ==
    SelectSeq(change.rules_affected, LAMBDA r : r.role = "master")[1].id

SnapshotRedundant(change) ==
    {change.rules_affected[k].id :
        k \in {j \in 1..Len(change.rules_affected) :
                  change.rules_affected[j].role = "redundant"}}

\* The rules of the group still stored.
StoredOf(rs, ids) == SelectSeq(rs, LAMBDA r : r.id \in ids)

\* The master of a merge change just requested is a rule of its group with
\* the highest hit count.
MasterHasMostHits ==
    \A k \in Len(changes) + 1..Len(changes') :
        changes'[k].type = "merge" =>
            /\ SnapshotMaster(changes'[k]) \in DbIds(db_rules)
            /\ SnapshotRedundant(changes'[k]) # {}
            /\ \A id \in SnapshotRedundant(changes'[k]) :
                  /\ id \in DbIds(db_rules)
                  /\ HitsOf(db_rules, id)
                        <= HitsOf(db_rules, SnapshotMaster(changes'[k]))

\* The approval left the master with the hits of the whole group and deleted
\* every other rule of the group.
MergedInto(change) ==
    LET master == SnapshotMaster(change)
        group == {master} \cup SnapshotRedundant(change)
    IN  /\ master \in DbIds(db_rules')
        /\ HitsOf(db_rules', master) = TotalHits(StoredOf(db_rules, group))
        /\ DbIds(db_rules') = DbIds(db_rules) \ SnapshotRedundant(change)
        /\ \A id \in DbIds(db_rules') \ {master} :
              HitsOf(db_rules', id) = HitsOf(db_rules, id)

----------------------------------------------------------------------------
\* ConfigParser._extract_objects_cisco.  A line is the sequence of its words
\* (line.split()); the blank line has none.

MaxObjectLines == 3

ObjectLineTypes ==
    {<<>>,
     <<"!">>,
     <<"access-list", "A", "extended", "permit", "ip", "any", "any">>,
     <<"object", "network", "WEB">>,
     <<"object", "service", "SVC">>,
     <<"object-group", "network", "GRP">>,
     <<"host", "10.0.0.5">>,
     <<"host", "10.0.0.9">>,
     <<"subnet", "10.0.0.0", "255.255.255.0">>,
     <<"service", "tcp", "destination", "eq", "80">>,
     <<"description", "front">>,
     <<"network-object", "object", "WEB">>,
     <<"group-object", "GRP">>}

ObjectConfigs == SeqsUpTo(ObjectLineTypes, MaxObjectLines)

\* obj_net_pattern, obj_svc_pattern, obj_group_pattern
net_match(parts) ==
    Len(parts) >= 3 /\ lower(parts[1]) = "object" /\ lower(parts[2]) = "network"

svc_match(parts) ==
    Len(parts) >= 3 /\ lower(parts[1]) = "object" /\ lower(parts[2]) = "service"

group_match(parts) == Len(parts) >= 3 /\ lower(parts[1]) = "object-group"

IsMarker(parts) == net_match(parts) \/ svc_match(parts) \/ group_match(parts)

\* low.startswith(word + " ") of the stripped line.
StartsWithWord(parts, word) ==
    Len(parts) >= 2 /\ lower(parts[1]) = word

MemberWords == {"network-object", "service-object", "group-object", "port-object"}

\* line_val.startswith("!") or low.startswith("access-list")
IsTerminator(parts) ==
    parts # <<>> /\ (parts[1] = "!" \/ lower(parts[1]) = "access-list")

\* if not line_val: continue
IsBlank(parts) == parts = <<>>

NewObject(name, type) ==
    [name |-> name, type |-> type, value |-> <<"unknown">>, description |-> <<>>]

NewGroup(name, type) ==
    [name |-> name, type |-> type, members |-> <<>>, description |-> <<>>]

\* The lists after the open blocks have been saved.
SavedObjects(objs, obj) == IF obj # NoBlock THEN Append(objs, obj) ELSE objs

SavedGroups(groups, group) ==
    IF group # NoBlock THEN Append(groups, group) ELSE groups

\* The content branches for an open object.
ObjectContent(obj, parts) ==
    IF StartsWithWord(parts, "host")
    THEN [obj EXCEPT !.value = <<parts[2]>>, !.type = "host"]
    ELSE IF StartsWithWord(parts, "subnet")
    THEN IF Len(parts) >= 3
         THEN [obj EXCEPT !.value = <<parts[2], "/", parts[3]>>, !.type = "network"]
         ELSE obj
    ELSE IF StartsWithWord(parts, "range")
    THEN [obj EXCEPT !.value = Tail(parts), !.type = "range"]
    ELSE IF StartsWithWord(parts, "service")
    THEN [obj EXCEPT !.value = Tail(parts)]
    ELSE IF StartsWithWord(parts, "description")
    THEN [obj EXCEPT !.description = Tail(parts)]
    ELSE obj

\* The content branches for an open group.
GroupContent(group, parts) ==
    IF parts # <<>> /\ lower(parts[1]) \in MemberWords
    THEN [group EXCEPT !.members = Append(@, parts)]
    ELSE IF StartsWithWord(parts, "description")
    THEN [group EXCEPT !.description = Tail(parts)]
    ELSE group

InitObjects ==
    /\ object_lines \in ObjectConfigs
    /\ object_line_no = 0
    /\ extracted_objects = <<>>
    /\ extracted_groups = <<>>
    /\ current_obj = NoBlock
    /\ current_group = NoBlock
    /\ objects_pc = "parsing"
    /\ AnalysisIdle
    /\ MigrationIdle
    /\ TrafficIdle
    /\ LogIdle
    /\ ChangeIdle
    /\ CoverIdle
    /\ UsageIdle
    /\ ParserIdle
    /\ recommendations = <<>>
    /\ UploadIdle

NextObjectLine == object_lines[object_line_no + 1]

ObjectLineLeft == objects_pc = "parsing" /\ object_line_no < Len(object_lines)

\* A blank line: continue.
SkipBlank ==
    /\ ObjectLineLeft
    /\ IsBlank(NextObjectLine)
    /\ object_line_no' = object_line_no + 1
    /\ UNCHANGED <<object_lines, extracted_objects, extracted_groups,
                   current_obj, current_group, objects_pc>>
    /\ UNCHANGED objectOthers

\* An object or object-group line: the open block is saved, a new one opened.
OpenBlock ==
    /\ ObjectLineLeft
    /\ ~IsBlank(NextObjectLine)
    /\ IsMarker(NextObjectLine)
    /\ extracted_objects' = SavedObjects(extracted_objects, current_obj)
    /\ extracted_groups' = SavedGroups(extracted_groups, current_group)
    /\ current_obj' =
          IF net_match(NextObjectLine) THEN NewObject(NextObjectLine[3], "network")
          ELSE IF svc_match(NextObjectLine)
          THEN NewObject(NextObjectLine[3], "service")
          ELSE NoBlock
    /\ current_group' =
          IF ~net_match(NextObjectLine) /\ ~svc_match(NextObjectLine)
          THEN NewGroup(NextObjectLine[3], lower(NextObjectLine[2]))
          ELSE NoBlock
    /\ object_line_no' = object_line_no + 1
    /\ UNCHANGED <<object_lines, objects_pc>>
    /\ UNCHANGED objectOthers

\* Any other line: content of the open block, its end, or nothing.
ProcessContent ==
    /\ ObjectLineLeft
    /\ ~IsBlank(NextObjectLine)
    /\ ~IsMarker(NextObjectLine)
    /\ LET parts == NextObjectLine
           content == \/ \E w \in {"host", "subnet", "range", "service", "description"} :
                            StartsWithWord(parts, w)
           grp_content == \/ lower(parts[1]) \in MemberWords
                          \/ StartsWithWord(parts, "description")
       IN  IF current_obj # NoBlock
           THEN /\ current_obj' = IF content THEN ObjectContent(current_obj, parts)
                                  ELSE IF IsTerminator(parts) THEN NoBlock
                                  ELSE current_obj
                /\ extracted_objects' =
                      IF ~content /\ IsTerminator(parts)
                      THEN Append(extracted_objects, current_obj)
                      ELSE extracted_objects
                /\ UNCHANGED <<current_group, extracted_groups>>
           ELSE IF current_group # NoBlock
           THEN /\ current_group' = IF grp_content
                                    THEN GroupContent(current_group, parts)
                                    ELSE IF IsTerminator(parts) THEN NoBlock
                                    ELSE current_group
                /\ extracted_groups' =
                      IF ~grp_content /\ IsTerminator(parts)
                      THEN Append(extracted_groups, current_group)
                      ELSE extracted_groups
                /\ UNCHANGED <<current_obj, extracted_objects>>
           ELSE UNCHANGED <<current_obj, current_group, extracted_objects,
                            extracted_groups>>
    /\ object_line_no' = object_line_no + 1
    /\ UNCHANGED <<object_lines, objects_pc>>
    /\ UNCHANGED objectOthers

\* After the loop: the last open block is saved and the lists are returned.
ReturnObjects ==
    /\ objects_pc = "parsing"
    /\ object_line_no = Len(object_lines)
    /\ extracted_objects' = SavedObjects(extracted_objects, current_obj)
    /\ extracted_groups' = SavedGroups(extracted_groups, current_group)
    /\ objects_pc' = "returned"
    /\ UNCHANGED <<object_lines, object_line_no, current_obj, current_group>>
    /\ UNCHANGED objectOthers

NextObjects == SkipBlank \/ OpenBlock \/ ProcessContent \/ ReturnObjects

SpecObjects == InitObjects /\ [][NextObjects]_vars


----------------------------------------------------------------------------
\* The closing of object and group blocks.

MarkersBefore(n) == {k \in 1..(n - 1) : IsMarker(object_lines[k])}

LastOf(S) == CHOOSE k \in S : \A x \in S : x <= k

\* No block is open when line n is read: no block was opened before it, or a
\* blank line, a line starting with "!" or an access-list line follows the
\* last object or object-group line.
ClosedBefore(n) ==
    \/ MarkersBefore(n) = {}
    \/ \E k \in (LastOf(MarkersBefore(n)) + 1)..(n - 1) :
          IsBlank(object_lines[k]) \/ IsTerminator(object_lines[k])

ValueWords == {"host", "subnet", "range", "service"} \cup MemberWords

IsValueLine(parts) == parts # <<>> /\ lower(parts[1]) \in ValueWords

\* The marker lines of objects, and of groups, in the order of the file.
ObjectMarkers == SelectSeq(object_lines, LAMBDA l : net_match(l) \/ svc_match(l))

GroupMarkers ==
    SelectSeq(object_lines,
              LAMBDA l : group_match(l) /\ ~net_match(l) /\ ~svc_match(l))

EmittedOnce ==
    /\ Len(extracted_objects) = Len(ObjectMarkers)
    /\ \A k \in 1..Len(ObjectMarkers) : extracted_objects[k].name = ObjectMarkers[k][3]
    /\ Len(extracted_groups) = Len(GroupMarkers)
    /\ \A k \in 1..Len(GroupMarkers) : extracted_groups[k].name = GroupMarkers[k][3]

\* C24: a host, subnet, range, service, network-object or group-object line
\* read after the open block was closed (by a blank line, a line starting
\* with "!" or an access-list line) changes no object and no group, and the
\* lists returned hold each opened block exactly once.
C24_ClosedBlockUntouched ==
    [][/\ (ObjectLineLeft /\ IsValueLine(NextObjectLine)
            /\ ClosedBefore(object_line_no + 1)) =>
              UNCHANGED <<current_obj, current_group, extracted_objects,
                          extracted_groups>>
       /\ objects_pc' = "returned" => EmittedOnce']_vars


----------------------------------------------------------------------------
\* Unmatched flows in the traffic replay.

FlowStep == traffic_pc = "loop" /\ log_index' = log_index + 1

StepLog == parsed_logs[log_index + 1]

StepMatch == find_match(StepLog, processed_rules)

\* The step credited its flow to the rule _find_match returned, and to no
\* other rule.
AttributedToMatch ==
    /\ StepMatch.id \in RuleIds
    /\ Counted(StepMatch.id, 1, StepLog.bytes)
    /\ \A other \in RuleIds \ {StepMatch.id} : Counted(other, 0, 0)

CountedUnmatched == unmatched_count' = unmatched_count + 1

\* C25 as stated: a flow that matches no rule is counted in the unmatched
\* counter and changes no rule's statistics; a flow for which _find_match
\* returns a rule is attributed to that rule and not counted as unmatched;
\* for flows with action allow and with action deny alike.
C25_UnmatchedOrAttributed ==
    [][FlowStep =>
         IF StepMatch = NoRule
         THEN CountedUnmatched /\ rule_stats' = rule_stats
         ELSE AttributedToMatch /\ unmatched_count' = unmatched_count]_vars

\* C25 amended: a flow that matches no rule changes no rule's statistics; it
\* is counted in the unmatched counter when its action is allow and in the
\* denied counter alone when its action is deny.  A flow for which
\* _find_match returns a rule is attributed to that rule and not counted as
\* unmatched when its action is deny, or when its action is allow and the
\* action of the rule is 'permit'; an allowed flow whose first matching rule
\* has another action is counted as unmatched and attributed to no rule.
C25_UnmatchedByAction ==
    [][FlowStep =>
         IF StepLog.action = "deny"
         THEN /\ unmatched_count' = unmatched_count
              /\ denied_count' = denied_count + 1
              /\ IF StepMatch = NoRule THEN rule_stats' = rule_stats
                 ELSE AttributedToMatch
         ELSE /\ denied_count' = denied_count
              /\ IF StepMatch # NoRule /\ StepMatch.action = "permit"
                 THEN AttributedToMatch /\ unmatched_count' = unmatched_count
                 ELSE CountedUnmatched /\ rule_stats' = rule_stats]_vars

\* Returned: an allowed flow credited to a permit rule, and an allowed flow
\* whose first match is a deny rule, counted as unmatched.
C25_Witness ==
    /\ traffic_pc = "returned"
    /\ Len(parsed_logs) = 2
    /\ parsed_logs[1].action = "allow" /\ parsed_logs[2].action = "allow"
    /\ find_match(parsed_logs[1], processed_rules) # NoRule
    /\ find_match(parsed_logs[1], processed_rules).action = "permit"
    /\ find_match(parsed_logs[2], processed_rules) # NoRule
    /\ find_match(parsed_logs[2], processed_rules).action = "deny"
    /\ rule_stats[find_match(parsed_logs[1], processed_rules).id].hits = 1
    /\ rule_stats[find_match(parsed_logs[2], processed_rules).id].hits = 0
    /\ unmatched_count = 1


----------------------------------------------------------------------------
\* The tighten-scope recommendation.

TightenScopeFor(id) ==
    {k \in 1..Len(recommendations) :
        recommendations[k].type = "tighten_scope"
        /\ recommendations[k].rule_id = id}

\* C26: analyze_logs returns a tighten_scope recommendation for a rule
\* exactly when the source of the rule is any and the rule has between 1 and
\* 10 distinct sources, whatever the action of the rule and whether or not
\* the over-permissive condition holds.
C26_TightenScopeOwnThreshold ==
    traffic_pc = "returned" =>
        \A id \in RuleIds :
            TightenScopeFor(id) # {}
                <=> /\ lower(rule_stats[id].source) = "any"
                    /\ Cardinality(rule_stats[id].distinct_sources) \in 1..10


----------------------------------------------------------------------------
\* The names of the unified objects.

\* C27: the object list generate_unified_policy returns never holds two
\* objects of the same name, whatever the contexts: also when two context
\* names sanitize to the same string and when a context already defines the
\* name a rename produces.
C27_UniqueObjectNames ==
    Unified =>
        \A j, k \in 1..Len(unified.objects) :
            unified.objects[j].name = unified.objects[k].name => j = k


----------------------------------------------------------------------------
\* The usage marks of a device over uploads, analyses and approved changes.
\* groups_used and objects_used are the groups and objects stored with
\* is_unused = False.

\* The names analyze_usage takes from one rule field.
FieldNames(field) ==
    CASE field = "object-group G1" -> {"G1"}
      [] field = "object-group G2" -> {"G2"}
      [] field = "object O1" -> {"O1"}
      [] field = "object O2" -> {"O2"}
      [] field = "" -> {}
      [] OTHER -> {field}

\* used_names: the names in the source, destination and service of the rules.
RuleNames(rs) ==
    UNION {FieldNames(rs[k].source) \cup FieldNames(rs[k].destination)
               \cup FieldNames(rs[k].service) : k \in 1..Len(rs)}

\* Rules that refer to a group, to an object, or to neither.
DeviceRuleTemplates ==
    Templates({"A"}, {"object-group G1", "object O2", "any"}, {"any"},
              {"ip"}, {"permit"}, {0}, {"none"})

DeviceRuleLists == {Stored(l) : l \in SeqsUpTo(DeviceRuleTemplates, MaxDbRules)}

NoVisits == [name \in GroupNames \cup ObjectNames \cup {"WEB", "any", "ip"} |-> 0]

\* A device with its object groups, before any configuration is uploaded.
InitDevice ==
    /\ db_rules = <<>>
    /\ changes = <<>>
    /\ request = NoRequest
    /\ response = NoRequest
    /\ sub_groups \in GroupGraphs
    /\ used_names = {}
    /\ names_left = {}
    /\ processed_groups = {}
    /\ call_stack = <<>>
    /\ groups_used = {}
    /\ objects_used = {}
    /\ visits = NoVisits
    /\ usage_pc = "idle"
    /\ AnalysisIdle
    /\ MigrationIdle
    /\ TrafficIdle
    /\ LogIdle
    /\ CoverIdle
    /\ ParserIdle
    /\ MoreIdle

NotMarking == usage_pc # "marking"

deviceOthers ==
    <<analysisVars, migrationVars, trafficVars, logVars, coverVars, parserVars,
      moreVars>>

\* analyze_usage up to its marking loop, for the rules rs: the names are
\* collected; the marks are left as they are (the reset is commented out).
BeginUsage(rs) ==
    /\ used_names' = RuleNames(rs)
    /\ names_left' = RuleNames(rs)
    /\ processed_groups' = {}
    /\ call_stack' = <<>>
    /\ visits' = NoVisits
    /\ usage_pc' = "marking"
    /\ UNCHANGED <<groups_used, objects_used>>

\* Upload of a configuration: ingest_objects stores the objects and groups
\* anew (is_unused = True), the rules are replaced and analyze_usage starts.
UploadConfig ==
    /\ NotMarking
    /\ \E rs \in DeviceRuleLists :
          /\ db_rules' = rs
          /\ used_names' = RuleNames(rs)
          /\ names_left' = RuleNames(rs)
    /\ processed_groups' = {}
    /\ call_stack' = <<>>
    /\ visits' = NoVisits
    /\ usage_pc' = "marking"
    /\ groups_used' = {}
    /\ objects_used' = {}
    /\ UNCHANGED <<changes, request, response, sub_groups>>
    /\ UNCHANGED deviceOthers

\* POST /analysis/start: analyze_usage on the stored rules.
StartUsageAnalysis ==
    /\ NotMarking
    /\ BeginUsage(db_rules)
    /\ UNCHANGED <<db_rules, changes, request, response, sub_groups>>
    /\ UNCHANGED deviceOthers

\* The change requests, served between two analyses.
DeviceCreateChange == NotMarking /\ CreateChange

DeviceCleanupRules == NotMarking /\ CleanupRules

DeviceUpdateChange == NotMarking /\ UpdateChange

NextDevice ==
    \/ UploadConfig
    \/ StartUsageAnalysis
    \/ TakeName
    \/ VisitSubGroup
    \/ ReturnFromGroup
    \/ CommitUsage
    \/ DeviceCreateChange
    \/ DeviceCleanupRules
    \/ DeviceUpdateChange

SpecDevice == InitDevice /\ [][NextDevice]_vars

\* The groups and objects the stored rules refer to, directly or through
\* the sub-groups and member objects of a group referred to.
ReferencedGroups(rs) == ReachableGroups(RuleNames(rs)) \cap GroupNames

ReferencedObjects(rs) ==
    (RuleNames(rs) \cap ObjectNames)
        \cup UNION {member_objects(g) : g \in ReferencedGroups(rs)}

\* C28: when analyze_usage has run, a group or object is marked used exactly
\* when a stored rule refers to it, directly or through the sub-groups and
\* member objects of a group referred to; after any sequence of uploads,
\* analyses and approved cleanup or delete changes.
C28_MarksFollowRules ==
    [][(usage_pc = "marking" /\ usage_pc' = "done") =>
          /\ groups_used' = ReferencedGroups(db_rules')
          /\ objects_used' = ReferencedObjects(db_rules')]_vars


----------------------------------------------------------------------------
\* Rules of the replay whose source or destination is no network.

\* _parse_network returns None for the text: it names an object or a group.
NoNetwork(text) == ~ParseNetworkRaises(text) /\ ~parse_network(text).ok

Unresolved(rule) == NoNetwork(rule.source) \/ NoNetwork(rule.destination)

\* The allowed flows no rule with networks on both sides matches.
OnlyUnresolvedCouldMatch ==
    {k \in 1..log_index :
        /\ parsed_logs[k].action = "allow"
        /\ FirstSpecMatch(parsed_logs[k], traffic_rules) = 0}

\* C29: a rule whose source or destination _parse_network cannot resolve to
\* a network never matches a flow: its hit counter stays 0 and the allowed
\* flows that only such rules could match are counted as unmatched.
C29_UnresolvedNeverMatches ==
    Replaying =>
        /\ \A k \in 1..Len(traffic_rules) :
              (Unresolved(traffic_rules[k]) /\ traffic_rules[k].id \in RuleIds) =>
                  rule_stats[traffic_rules[k].id].hits = 0
        /\ unmatched_count >= Cardinality(OnlyUnresolvedCouldMatch)


----------------------------------------------------------------------------
\* Configuration upload: the rules of an uploaded text are stored with their
\* hit counts (routers/devices.py, _process_legacy_upload and
\* _process_contexts). One context of a multi-context upload is followed: each
\* context has its own device, texts and rows. A line of the text is kept as
\* its words, the number of its "(hitcnt=N)" and the hash at its end ("" when
\* the line ends in no 0x... hash); the fields of a rule other than raw, hash,
\* hits, last_hit and children play no part in the correlation and are left
\* out.

MaxUploadLines == 2

MaxBriefLines == 1

\* datetime for a last-hit stamp is made only after the year 2000.
Year2000 == 946684800

HitcntValues == {0, 3}

BriefHits == {0, 5}

LineHashes == {"1a2b3c4d", "5E6F7A8B"}

AclWords ==
    {<<"access-list", "WEB", "line", "1", "extended", "permit", "ip", "any", "any">>,
     <<"access-list", "WEB", "line", "2", "extended", "permit", "ip", "any", "any", "log">>,
     <<"access-list", "WEB", "line", "3", "extended", "deny", "ip", "any", "any">>}

UploadLineSet ==
    {[indented |-> ind, words |-> w, has_hitcnt |-> TRUE, hitcnt |-> n, hash |-> h] :
        ind \in BOOLEAN, w \in AclWords, n \in HitcntValues,
        h \in LineHashes \cup {""}}
    \cup
    {[indented |-> ind, words |-> w, has_hitcnt |-> FALSE, hitcnt |-> 0, hash |-> h] :
        ind \in BOOLEAN, w \in AclWords, h \in LineHashes \cup {""}}

UploadTexts == SeqsUpTo(UploadLineSet, MaxUploadLines)

\* Lines of 'show access-list brief': hash, parent hash, hits and time stamp.
BriefLineSet ==
    {[hash |-> h, parent |-> q, hits |-> n, ts |-> t] :
        h \in {"1a2b3c4d", "5e6f7a8b"}, q \in {"00000000", "1a2b3c4d"},
        n \in BriefHits, t \in {0, Year2000 + 1}}

BriefTexts == SeqsUpTo(BriefLineSet, MaxBriefLines)

\* r_h.lower().replace("0x", "")
HashKey(h) ==
    CASE h = "5E6F7A8B" -> "5e6f7a8b"
      [] OTHER -> h

\* ConfigParser._extract_hits
extract_hits(line) == IF line.has_hitcnt THEN line.hitcnt ELSE 0

\* _parse_cisco_rules, as far as raw, hash, hits and children go: an indented
\* line is a child of the last top-level rule, if there is one.
RECURSIVE parse_rules_data(_, _)
parse_rules_data(lines, structured) ==
    IF lines = <<>>
    THEN structured
    ELSE LET line == Head(lines)
             new_r == [raw |-> line, hash |-> line.hash,
                          hits |-> extract_hits(line), children |-> <<>>]
         IN  IF line.indented /\ structured # <<>>
             THEN parse_rules_data(Tail(lines),
                      [structured EXCEPT ![Len(structured)].children =
                          Append(@, [raw |-> line, hash |-> line.hash,
                                     hits |-> extract_hits(line)])])
             ELSE parse_rules_data(Tail(lines), Append(structured, new_r))

rules_data(lines) == parse_rules_data(lines, <<>>)

\* ZipParser.parse_detailed_hits: the dict in insertion order; a later line
\* with the hash of an earlier one takes its place in the dict.
RECURSIVE parse_detailed_hits(_, _)
parse_detailed_hits(lines, hits_map) ==
    IF lines = <<>>
    THEN hits_map
    ELSE LET line == Head(lines)
             item == [hash |-> line.hash, hits |-> extract_hits(line), raw |-> line]
             at == {k \in 1..Len(hits_map) : hits_map[k].hash = line.hash}
         IN  IF line.hash = ""
             THEN parse_detailed_hits(Tail(lines), hits_map)
             ELSE IF at # {}
             THEN parse_detailed_hits(Tail(lines),
                      [k \in 1..Len(hits_map) |->
                          IF k \in at THEN item ELSE hits_map[k]])
             ELSE parse_detailed_hits(Tail(lines), Append(hits_map, item))

\* parse_access_list_brief: hits and newest stamp of one hash added to the map.
AddBrief(stats_map, h, hits, ts) ==
    [k \in DOMAIN stats_map \cup {h} |->
        IF k = h
        THEN LET old == IF h \in DOMAIN stats_map
                        THEN stats_map[h]
                        ELSE [hits |-> 0, last_hit_ts |-> 0]
             IN  [hits |-> old.hits + hits,
                  last_hit_ts |-> IF ts > old.last_hit_ts THEN ts ELSE old.last_hit_ts]
        ELSE stats_map[k]]

RECURSIVE brief_stats(_, _)
brief_stats(lines, stats_map) ==
    IF lines = <<>>
    THEN stats_map
    ELSE LET line == Head(lines)
             self == AddBrief(stats_map, line.hash, line.hits, line.ts)
         IN  brief_stats(Tail(lines),
                 IF line.parent # "00000000"
                 THEN AddBrief(self, line.parent, line.hits, line.ts)
                 ELSE self)

\* ZipParser.parse_access_list_brief; last_hit 0 stands for None.
parse_access_list_brief(lines) ==
    LET stats_map == brief_stats(lines, <<>>)
    IN  [h \in DOMAIN stats_map |->
            [hits |-> stats_map[h].hits,
             last_hit |-> IF stats_map[h].last_hit_ts > Year2000
                          THEN stats_map[h].last_hit_ts
                          ELSE 0]]

\* _normalize_cisco_rule: "line N", the hit count, the hash, "elements" and
\* "extended" are taken out and the text is lowered.
RECURSIVE normalize_words(_)
normalize_words(words) ==
    IF words = <<>>
    THEN <<>>
    ELSE IF Head(words) = "line" /\ Len(words) >= 2
    THEN normalize_words(Tail(Tail(words)))
    ELSE IF Head(words) \in {"extended", "elements"}
    THEN normalize_words(Tail(words))
    ELSE <<lower(Head(words))>> \o normalize_words(Tail(words))

_normalize_cisco_rule(line) == normalize_words(line.words)

\* norm_raw_rule in norm_h_raw, on the words of the two texts.
IsInfix(a, b) ==
    \E k \in 0..(Len(b) - Len(a)) : SubSeq(b, k + 1, k + Len(a)) = a

\* The position in hit_map of the first entry whose text is or contains the
\* rule's text, 0 when there is none.
FuzzyMatch(raw, hit_map) ==
    LET found == {k \in 1..Len(hit_map) :
                     IsInfix(_normalize_cisco_rule(raw),
                             _normalize_cisco_rule(hit_map[k].raw))}
    IN  IF found = {} THEN 0 ELSE CHOOSE k \in found : \A j \in found : k <= j

\* _process_legacy_upload: create_rule. rule_hash "" and last_hit 0 stand for
\* None.
create_rule(data, child) ==
    [hits |-> data.hits, is_unused |-> (data.hits = 0), rule_hash |-> data.hash,
     last_hit |-> 0, child |-> child]

\* _process_contexts: create_rule_obj
create_rule_obj(data, child) ==
    [hits |-> data.hits, is_unused |-> (data.hits = 0),
     rule_hash |-> IF data.hash # "" THEN HashKey(data.hash) ELSE "",
     last_hit |-> 0, child |-> child]

\* _process_contexts: enhance_rule
enhance_rule(new_r, raw_data, ts_map, hit_map) ==
    IF new_r.rule_hash # "" /\ new_r.rule_hash \in DOMAIN ts_map
    THEN LET st == ts_map[new_r.rule_hash]
             counted == IF st.hits > 0
                        THEN [new_r EXCEPT !.hits = st.hits, !.is_unused = FALSE]
                        ELSE new_r
         IN  IF st.last_hit # 0
             THEN [counted EXCEPT !.last_hit = st.last_hit]
             ELSE counted
    ELSE IF new_r.hits = 0 /\ hit_map # <<>>
    THEN LET m == FuzzyMatch(raw_data.raw, hit_map)
         IN  IF m = 0
             THEN new_r
             ELSE LET matched == [new_r EXCEPT
                                     !.hits = hit_map[m].hits,
                                     !.is_unused = IF hit_map[m].hits > 0
                                                   THEN FALSE ELSE @]
                      l_hash == HashKey(hit_map[m].hash)
                  IN  IF l_hash \in DOMAIN ts_map
                      THEN LET seen == IF ts_map[l_hash].last_hit # 0
                                       THEN [matched EXCEPT
                                                !.last_hit = ts_map[l_hash].last_hit]
                                       ELSE matched
                           IN  IF ts_map[l_hash].hits > seen.hits
                               THEN [seen EXCEPT !.hits = ts_map[l_hash].hits]
                               ELSE seen
                      ELSE matched
    ELSE new_r

\* The rows of one entry of rules_data: the parent and then its children.
LegacyRows(r) ==
    <<create_rule(r, FALSE)>>
        \o [k \in 1..Len(r.children) |-> create_rule(r.children[k], TRUE)]

ContextRows(r, ts_map, hit_map) ==
    <<enhance_rule(create_rule_obj(r, FALSE), r, ts_map, hit_map)>>
        \o [k \in 1..Len(r.children) |->
               enhance_rule(create_rule_obj(r.children[k], TRUE), r.children[k],
                            ts_map, hit_map)]

InitUpload ==
    /\ upload_mode \in {"legacy", "contexts"}
    /\ upload_lines \in UploadTexts
    /\ brief_lines \in (IF upload_mode = "contexts" THEN BriefTexts ELSE {<<>>})
    /\ stored_rules = <<>>
    /\ rules_done = 0
    /\ upload_pc = "rules"
    /\ AnalysisIdle
    /\ MigrationIdle
    /\ TrafficIdle
    /\ LogIdle
    /\ ChangeIdle
    /\ CoverIdle
    /\ UsageIdle
    /\ ParserIdle
    /\ ObjectsIdle
    /\ recommendations = <<>>

uploadOthers ==
    <<analysisVars, migrationVars, trafficVars, logVars, changeVars, coverVars,
      usageVars, parserVars, objectVars, recVars>>

\* _process_legacy_upload: one turn of the loop over rules_data.
StoreLegacyRule ==
    /\ upload_pc = "rules"
    /\ upload_mode = "legacy"
    /\ rules_done < Len(rules_data(upload_lines))
    /\ stored_rules' =
           stored_rules \o LegacyRows(rules_data(upload_lines)[rules_done + 1])
    /\ rules_done' = rules_done + 1
    /\ UNCHANGED <<upload_lines, brief_lines, upload_mode, upload_pc>>
    /\ UNCHANGED uploadOthers

\* _process_contexts: one turn of the loop over rules_data.
StoreContextRule ==
    /\ upload_pc = "rules"
    /\ upload_mode = "contexts"
    /\ rules_done < Len(rules_data(upload_lines))
    /\ stored_rules' =
           stored_rules \o
               ContextRows(rules_data(upload_lines)[rules_done + 1],
                           parse_access_list_brief(brief_lines),
                           parse_detailed_hits(upload_lines, <<>>))
    /\ rules_done' = rules_done + 1
    /\ UNCHANGED <<upload_lines, brief_lines, upload_mode, upload_pc>>
    /\ UNCHANGED uploadOthers

\* db.add_all(rules_to_create) and db.commit()
CommitUpload ==
    /\ upload_pc = "rules"
    /\ rules_done = Len(rules_data(upload_lines))
    /\ upload_pc' = "committed"
    /\ UNCHANGED <<upload_lines, brief_lines, upload_mode, stored_rules, rules_done>>
    /\ UNCHANGED uploadOthers

NextUpload == StoreLegacyRule \/ StoreContextRule \/ CommitUpload

SpecUpload == InitUpload /\ [][NextUpload]_vars

\* C30: after an upload has been ingested, single-file or multi-context, every
\* stored rule, parent or child, has is_unused = (hits == 0), whichever way
\* its hit count was set: the parsed hitcnt, the hash lookup in the brief map,
\* or the fuzzy raw-text match followed by the brief-map update.
C30_UnusedIffNoHits ==
    upload_pc = "committed" =>
        \A k \in 1..Len(stored_rules) :
            stored_rules[k].is_unused = (stored_rules[k].hits = 0)

====
